---------------------------- MODULE Spec2Model ----------------------------
(***************************************************************************)
(* A model of music_profanity_filter: the transcript/lyrics alignment of   *)
(* transcriber.py, the detector of detector.py, the muting of editor.py    *)
(* and the four workflows of pipeline.py.                                  *)
(*                                                                         *)
(* Conventions.  Times are whole milliseconds (the code's float seconds    *)
(* times 1000), confidences are thousandths (1.0 = 1000).  A word is a     *)
(* sequence of one-character strings, so that lower-casing, stripping and  *)
(* substring search are computed and not assumed.  Python's None is the    *)
(* record [some |-> FALSE, ...].                                           *)
(***************************************************************************)
EXTENDS Integers, Sequences, FiniteSets, TLC

(***************************************************************************)
(* Bounds of the model.                                                    *)
(***************************************************************************)
MaxT == 2          \* longest transcript drawn for the alignment
MaxR == 3          \* longest reference word list drawn for the alignment
MaxSections == 2   \* most spans drawn for one call of mute_sections
MaxEdits == 2      \* most edit points of an EDL file found on disk
MaxMinute == 1     \* the first minutes of the timestamps that are formatted
MaxText == 4       \* longest timestamp text drawn character by character
MaxDocEdits == 1   \* most edits of a hand-written EDL document
MaxWords == 3      \* longest word list passed to detect
MaxLines == 2      \* most lines of a word list file
MaxListed == 1     \* most words passed to one add_words or remove_words call
MaxLexOps == 2     \* most add_words and remove_words calls on one detector

(***************************************************************************)
(* Program constants.                                                      *)
(***************************************************************************)
InsertWordMs == 300        \* "Estimate ~0.3s per word"
ReplaceConfidence == 500   \* confidence=0.5 of an interpolated word
InsertConfidence == 300    \* confidence=0.3 of an inserted word
fade_ms == 10              \* AudioEditor(fade_ms=10)

(***************************************************************************)
(* Generic helpers.                                                        *)
(***************************************************************************)
Min(a, b) == IF a <= b THEN a ELSE b
Max(a, b) == IF a >= b THEN a ELSE b
Range(s) == {s[i] : i \in 1..Len(s)}
Last(s) == s[Len(s)]

\* All sequences over S of length at most n.
SeqsUpTo(S, n) == UNION {[1..k -> S] : k \in 0..n}

(***************************************************************************)
(* Characters and text (str.lower, re.sub(r"[^\w]", ""), str.split).       *)
(***************************************************************************)
LowerLetters ==
    {"a", "b", "c", "d", "e", "f", "h", "k", "l", "m", "n", "o", "r", "s", "t", "u", "x"}
UpperLetters == {"A", "D", "H"}
WordChars == LowerLetters \cup UpperLetters
Whitespace == {" "}

LowerChar(c) ==
    IF c = "A" THEN "a" ELSE IF c = "D" THEN "d" ELSE IF c = "H" THEN "h" ELSE c

\* str.lower()
Lower(w) == [i \in 1..Len(w) |-> LowerChar(w[i])]

\* re.sub(r"[^\w]", "", s)
RECURSIVE StripNonWord(_)
StripNonWord(w) ==
    IF w = <<>> THEN <<>>
    ELSE IF Head(w) \in WordChars THEN <<Head(w)>> \o StripNonWord(Tail(w))
    ELSE StripNonWord(Tail(w))

\* transcriber.normalize_word
normalize_word(w) == StripNonWord(Lower(w))

\* The index of the first "]" of text at or after position i, 0 if none.
RECURSIVE FindClose(_, _)
FindClose(text, i) ==
    IF i > Len(text) THEN 0
    ELSE IF text[i] = "]" THEN i
    ELSE FindClose(text, i + 1)

\* re.sub(r"\[.*?\]", "", text): each "[" with a later "]" is removed up to
\* the nearest one.
RECURSIVE RemoveHeaders(_)
RemoveHeaders(text) ==
    IF text = <<>> THEN <<>>
    ELSE IF Head(text) = "[" /\ FindClose(text, 2) # 0
         THEN RemoveHeaders(SubSeq(text, FindClose(text, 2) + 1, Len(text)))
         ELSE <<Head(text)>> \o RemoveHeaders(Tail(text))

\* str.split(): the maximal runs of non-whitespace characters, in order.
RECURSIVE SplitFrom(_, _)
SplitFrom(text, cur) ==
    IF text = <<>> THEN (IF cur = <<>> THEN <<>> ELSE <<cur>>)
    ELSE IF Head(text) \in Whitespace
         THEN (IF cur = <<>> THEN <<>> ELSE <<cur>>) \o SplitFrom(Tail(text), <<>>)
         ELSE SplitFrom(Tail(text), Append(cur, Head(text)))

Split(text) == SplitFrom(text, <<>>)

\* transcriber.parse_lyrics
parse_lyrics(lyrics_text) == Split(RemoveHeaders(lyrics_text))

\* " ".join(words)
RECURSIVE JoinWords(_)
JoinWords(ws) ==
    IF ws = <<>> THEN <<>>
    ELSE IF Len(ws) = 1 THEN ws[1]
    ELSE ws[1] \o <<" ">> \o JoinWords(Tail(ws))

(***************************************************************************)
(* difflib.SequenceMatcher(None, a, b) for sequences shorter than 200      *)
(* elements (no junk, no autojunk).                                        *)
(***************************************************************************)
\* The blocks a[i..i+k) = b[j..j+k) inside a[alo..ahi) x b[blo..bhi)
\* (0-based, half-open), k >= 1.
CommonBlocks(a, b, alo, ahi, blo, bhi) ==
    {m \in [i : alo..(ahi - 1), j : blo..(bhi - 1), k : 1..Min(ahi - alo, bhi - blo)] :
        /\ m.i + m.k <= ahi
        /\ m.j + m.k <= bhi
        /\ \A d \in 0..(m.k - 1) : a[m.i + d + 1] = b[m.j + d + 1]}

\* find_longest_match: the longest block; of those the one that starts
\* earliest in a; of those the one that starts earliest in b.
find_longest_match(a, b, alo, ahi, blo, bhi) ==
    LET C == CommonBlocks(a, b, alo, ahi, blo, bhi)
    IN IF C = {} THEN [i |-> alo, j |-> blo, k |-> 0]
       ELSE CHOOSE m \in C :
              \A o \in C :
                 \/ m.k > o.k
                 \/ m.k = o.k /\ m.i < o.i
                 \/ m.k = o.k /\ m.i = o.i /\ m.j <= o.j

\* get_matching_blocks without the final sentinel: the longest match, then
\* recursively the matches to its left and to its right, in order.
RECURSIVE matching_blocks(_, _, _, _, _, _)
matching_blocks(a, b, alo, ahi, blo, bhi) ==
    LET m == find_longest_match(a, b, alo, ahi, blo, bhi)
    IN IF m.k = 0 THEN <<>>
       ELSE (IF alo < m.i /\ blo < m.j
             THEN matching_blocks(a, b, alo, m.i, blo, m.j) ELSE <<>>)
            \o <<m>>
            \o (IF m.i + m.k < ahi /\ m.j + m.k < bhi
                THEN matching_blocks(a, b, m.i + m.k, ahi, m.j + m.k, bhi) ELSE <<>>)

\* get_matching_blocks: adjacent blocks are merged, the sentinel
\* (len(a), len(b), 0) is appended.
RECURSIVE CollapseBlocks(_)
CollapseBlocks(bs) ==
    IF Len(bs) < 2 THEN bs
    ELSE IF bs[1].i + bs[1].k = bs[2].i /\ bs[1].j + bs[1].k = bs[2].j
         THEN CollapseBlocks(<<[i |-> bs[1].i, j |-> bs[1].j, k |-> bs[1].k + bs[2].k]>>
                             \o SubSeq(bs, 3, Len(bs)))
         ELSE <<bs[1]>> \o CollapseBlocks(Tail(bs))

get_matching_blocks(a, b) ==
    CollapseBlocks(matching_blocks(a, b, 0, Len(a), 0, Len(b)))
      \o <<[i |-> Len(a), j |-> Len(b), k |-> 0]>>

\* get_opcodes: between two blocks a replace, delete or insert run, then the
\* block itself as an equal run.  Indices are 0-based and half-open.
RECURSIVE OpcodesFrom(_, _, _)
OpcodesFrom(blocks, i, j) ==
    IF blocks = <<>> THEN <<>>
    ELSE LET m == Head(blocks)
             tag == IF i < m.i /\ j < m.j THEN "replace"
                    ELSE IF i < m.i THEN "delete"
                    ELSE IF j < m.j THEN "insert"
                    ELSE ""
             gap == IF tag = "" THEN <<>>
                    ELSE <<[tag |-> tag, i1 |-> i, i2 |-> m.i, j1 |-> j, j2 |-> m.j]>>
             eq == IF m.k = 0 THEN <<>>
                   ELSE <<[tag |-> "equal", i1 |-> m.i, i2 |-> m.i + m.k,
                           j1 |-> m.j, j2 |-> m.j + m.k]>>
         IN gap \o eq \o OpcodesFrom(Tail(blocks), m.i + m.k, m.j + m.k)

get_opcodes(a, b) == OpcodesFrom(get_matching_blocks(a, b), 0, 0)

(***************************************************************************)
(* Transcriber.transcribe_with_context: what each run of the alignment     *)
(* emits.                                                                  *)
(***************************************************************************)
TranscribedWord(w, s, e, c) == [word |-> w, start |-> s, end |-> e, confidence |-> c]

\* The equal step with the spelling of the transcript.
Mutant_EmitEqual(op, t_all, r_all) ==
    [n \in 1..Min(op.i2 - op.i1, op.j2 - op.j1) |->
        TranscribedWord(t_all[op.i1 + n].word,
                        t_all[op.i1 + n].start,
                        t_all[op.i1 + n].end,
                        t_all[op.i1 + n].confidence)]

\* tag == "equal": the reference spelling with the transcribed timing.
EmitEqual(op, t_all, r_all) ==
    [n \in 1..Min(op.i2 - op.i1, op.j2 - op.j1) |->
        TranscribedWord(r_all[op.j1 + n],
                        t_all[op.i1 + n].start,
                        t_all[op.i1 + n].end,
                        t_all[op.i1 + n].confidence)]

\* tag == "replace": the span of the transcript run divided among the
\* reference words.
EmitReplace(op, t_all, r_all) ==
    LET t_words == SubSeq(t_all, op.i1 + 1, op.i2)
        r_words_slice == SubSeq(r_all, op.j1 + 1, op.j2)
        m == Len(r_words_slice)
    IN IF t_words = <<>> THEN <<>>
       ELSE LET start_time == t_words[1].start
                end_time == Last(t_words).end
                duration == end_time - start_time
            IN [n \in 1..m |->
                  TranscribedWord(r_words_slice[n],
                                  start_time + ((duration * (n - 1)) \div m),
                                  start_time + ((duration * n) \div m),
                                  ReplaceConfidence)]

\* tag == "insert": chained from the end of the last emitted word; nothing
\* is emitted when no word has been emitted yet.
EmitInsert(op, aligned, r_all) ==
    IF aligned = <<>> THEN <<>>
    ELSE LET last_end == Last(aligned).end
         IN [n \in 1..(op.j2 - op.j1) |->
               TranscribedWord(r_all[op.j1 + n],
                               last_end + ((n - 1) * InsertWordMs),
                               last_end + (n * InsertWordMs),
                               InsertConfidence)]

\* One iteration of "for tag, i1, i2, j1, j2 in matcher.get_opcodes()".
EmitRun(op, aligned, t_all, r_all) ==
    IF op.tag = "equal" THEN EmitEqual(op, t_all, r_all)
    ELSE IF op.tag = "replace" THEN EmitReplace(op, t_all, r_all)
    ELSE IF op.tag = "insert" THEN EmitInsert(op, aligned, r_all)
    ELSE <<>>

RECURSIVE AlignRuns(_, _, _, _)
AlignRuns(ops, aligned, t_all, r_all) ==
    IF ops = <<>> THEN aligned
    ELSE AlignRuns(Tail(ops), aligned \o EmitRun(Head(ops), aligned, t_all, r_all),
                   t_all, r_all)

NormalizedOf(ws) == [i \in 1..Len(ws) |-> normalize_word(ws[i])]
TranscriptNormalized(t_all) == [i \in 1..Len(t_all) |-> normalize_word(t_all[i].word)]

\* "if not reference_lyrics": None or the empty string.
NoReference(lyrics) == ~lyrics.some \/ lyrics.text = <<>>

\* The whole of transcribe_with_context, given what Whisper transcribed.
transcribe_with_context(t_all, lyrics) ==
    IF NoReference(lyrics) THEN t_all
    ELSE LET ref_words == parse_lyrics(lyrics.text)
         IN AlignRuns(get_opcodes(TranscriptNormalized(t_all), NormalizedOf(ref_words)),
                      <<>>, t_all, ref_words)

(***************************************************************************)
(* State.                                                                  *)
(***************************************************************************)
VARIABLES
    \* transcribe_with_context, one opcode at a time
    apc,                 \* "off" | "start" | "loop" | "done"
    transcribed_words,   \* what self.transcribe returned
    reference_lyrics,    \* [some, text]
    ref_words,           \* parse_lyrics(reference_lyrics)
    opcodes,             \* the opcodes still to be processed
    aligned_words,       \* the words emitted so far
    \* AudioEditor.mute_sections, one section at a time
    mpc,                 \* "off" | "start" | "loop" | "done"
    source_audio,        \* the samples of the file at audio_path, one per ms
    sections,            \* the (start, end) spans passed in, in ms
    sorted_sections,     \* sorted(sections), those not yet processed
    audio,               \* the buffer being edited, exported at the end
    mute_run,            \* 1 in the first call of mute_sections, 2 in the second
    first_audio,         \* what the first call exported
    \* MusicProfanityFilter: one call of one workflow
    ppc,                 \* "off" | "idle" | the step about to run | "returned"
    workflow,            \* the entry point called
    args,                \* its arguments
    keep_temp_files,     \* self.keep_temp_files
    profanity_set,       \* self.detector.profanity_set
    files,               \* the audio files on disk: input, "(clean)" and explicit output
    edl_file,            \* the EDL file on disk
    stems_fs,            \* the persistent stem directory on disk
    temp_dirs,           \* how many mkdtemp directories exist on disk
    edit_log,            \* how many runs have written the edit log
    before,              \* the disk when the entry point was called
    temp_dir,            \* the local temp_dir: "unbound" | "None" | "dir"
    words,               \* the local words
    profanities,         \* the local profanities / edits_for_muting
    edl,                 \* the EDL that apply_edl loaded
    calls,               \* the collaborators invoked so far, in order
    muted,               \* the spans handed to the editor
    exported,            \* combine_stems has written output_path in this run
    outcome,             \* how the run ended: which return or which failure
    result,              \* what the entry point returned or raised
    \* edl.py: a timestamp or an EDL on its way to the file and back
    epc,                 \* "off" | "time" | "text" | "object" | "doc" | "done"
    ts_in,               \* the seconds passed to format_timestamp, in ms
    ts_text,             \* the timestamp text
    ts_out,              \* what parse_timestamp returned or raised
    edl_obj,             \* the EDL that is saved
    edl_doc,             \* the JSON document of the file
    edl_loaded,          \* what EDL.load returned or raised
    ts_again,            \* the text of the parsed timestamp, formatted again
    edl_resaved,         \* the document of the loaded EDL, saved again
    \* ProfanityDetector.detect, one word at a time, called twice
    dpc,                 \* "off" | "loop" | "done"
    det_words,           \* the words passed to detect
    det_lexicon,         \* self.profanity_set
    det_run,             \* 1 in the first call, 2 in the second
    det_rest,            \* the words not yet looked at
    matches,             \* the local matches
    first_matches,       \* what the first call returned
    \* ProfanityDetector: the lexicon from construction through add_words and
    \* remove_words to a call of detect
    lpc,                 \* "off" | "new" | "ready" | "detected"
    lex_set,             \* self.profanity_set
    lex_ops,             \* how many add_words / remove_words calls were made
    lex_last,            \* the last operation: [op, words, prior]
    lex_matches          \* what detect returned

alignVars == <<apc, transcribed_words, reference_lyrics, ref_words, opcodes, aligned_words>>
muteVars == <<mpc, source_audio, sections, sorted_sections, audio, mute_run, first_audio>>

cfgVars == <<keep_temp_files, profanity_set>>
callVars == <<workflow, args, before>>
diskVars == <<files, edl_file, stems_fs, edit_log>>
localVars == <<temp_dir, words, profanities, edl, muted, exported>>
pipeVars == <<ppc, cfgVars, callVars, diskVars, temp_dirs, localVars, calls, outcome, result>>

edlVars == <<epc, ts_in, ts_text, ts_out, edl_obj, edl_doc, edl_loaded, ts_again, edl_resaved>>
detVars == <<dpc, det_words, det_lexicon, det_run, det_rest, matches, first_matches>>
lexVars == <<lpc, lex_set, lex_ops, lex_last, lex_matches>>
unitVars == <<edlVars, detVars, lexVars>>

vars == <<alignVars, muteVars, pipeVars, unitVars>>

\* The parts of the state that a specification does not exercise.
AlignIdle ==
    /\ apc = "off"
    /\ transcribed_words = <<>>
    /\ reference_lyrics = [some |-> FALSE, text |-> <<>>]
    /\ ref_words = <<>>
    /\ opcodes = <<>>
    /\ aligned_words = <<>>

MuteIdle ==
    /\ mpc = "off"
    /\ source_audio = <<>>
    /\ sections = <<>>
    /\ sorted_sections = <<>>
    /\ audio = <<>>
    /\ mute_run = 0
    /\ first_audio = <<>>

NoEdl == [exists |-> FALSE, valid |-> FALSE, stems_dir |-> FALSE, edits |-> <<>>]
NoStems == [exists |-> FALSE, vocals |-> FALSE, no_vocals |-> FALSE]
NoArgs == [output_given |-> FALSE, overwrite |-> FALSE, preview_callback |-> FALSE,
           lyrics |-> [some |-> FALSE, text |-> <<>>]]
NoResult == [kind |-> "none", output_path |-> "None", profanities_found |-> <<>>,
             transcribed_words |-> <<>>, success |-> FALSE, error |-> "None",
             edl_path |-> "None", stems_dir |-> "None"]
NoDisk == [files |-> [input |-> "absent", clean |-> "absent", explicit |-> "absent"],
           edl_file |-> NoEdl, stems_fs |-> NoStems, temp_dirs |-> 0, edit_log |-> 0]

PipeIdle ==
    /\ ppc = "off"
    /\ workflow = "none"
    /\ args = NoArgs
    /\ keep_temp_files = FALSE
    /\ profanity_set = {}
    /\ files = NoDisk.files
    /\ edl_file = NoEdl
    /\ stems_fs = NoStems
    /\ temp_dirs = 0
    /\ edit_log = 0
    /\ before = NoDisk
    /\ temp_dir = "unbound"
    /\ words = <<>>
    /\ profanities = <<>>
    /\ edl = NoEdl
    /\ calls = <<>>
    /\ muted = <<>>
    /\ exported = FALSE
    /\ outcome = "none"
    /\ result = NoResult

NoValue == [ok |-> FALSE, value |-> 0, error |-> "None"]

EdlIdle ==
    /\ epc = "off"
    /\ ts_in = 0
    /\ ts_text = <<>>
    /\ ts_out = NoValue
    /\ edl_obj = <<>>
    /\ edl_doc = <<>>
    /\ edl_loaded = NoValue
    /\ ts_again = <<>>
    /\ edl_resaved = <<>>

DetectIdle ==
    /\ dpc = "off"
    /\ det_words = <<>>
    /\ det_lexicon = {}
    /\ det_run = 0
    /\ det_rest = <<>>
    /\ matches = <<>>
    /\ first_matches = <<>>

NoOperation == [op |-> "None", words |-> <<>>, prior |-> {}]

LexIdle ==
    /\ lpc = "off"
    /\ lex_set = {}
    /\ lex_ops = 0
    /\ lex_last = NoOperation
    /\ lex_matches = <<>>

UnitIdle == EdlIdle /\ DetectIdle /\ LexIdle

(***************************************************************************)
(* The inputs of the alignment.                                            *)
(***************************************************************************)
None == [some |-> FALSE, text |-> <<>>]
Some(text) == [some |-> TRUE, text |-> text]

\* What Whisper hears: a spelling and the probability it reports for it.
WhisperWords == {[word |-> <<"A", "!">>, confidence |-> 900],
                 [word |-> <<"b">>, confidence |-> 400]}
\* The silence before a word and the length of a word.
WhisperGaps == {0, 1200}
WhisperDurations == {600, 1200}

WhisperShapes == [w : WhisperWords, gap : WhisperGaps, dur : WhisperDurations]

\* A transcript from its shapes: each word starts gap after the start of the
\* previous one, so starts are non-decreasing and end >= start.
RECURSIVE TranscriptFrom(_, _)
TranscriptFrom(shapes, prev_start) ==
    IF shapes = <<>> THEN <<>>
    ELSE LET h == Head(shapes)
             s == prev_start + h.gap
         IN <<TranscribedWord(h.w.word, s, s + h.dur, h.w.confidence)>>
            \o TranscriptFrom(Tail(shapes), s)

Transcripts(n) == {TranscriptFrom(sh, 0) : sh \in SeqsUpTo(WhisperShapes, n)}

\* The spellings of the reference lyrics.
ReferenceSpellings == {<<"a">>, <<"b", "!">>, <<"c">>}

\* None, the empty string, lyrics of up to n words, and texts made of
\* whitespace and bracketed section headers.
ReferenceLyrics(n) ==
    {None, Some(<<>>), Some(<<" ">>), Some(<<"[", "c", "]">>),
     Some(<<"[", "c", "]", " ", "a">>)}
    \cup {Some(JoinWords(ws)) : ws \in SeqsUpTo(ReferenceSpellings, n)}

\* TimedWord invariant of the data model: end >= start, starts ordered.
OrderedTranscript(ws) ==
    /\ \A n \in 1..Len(ws) : ws[n].end >= ws[n].start
    /\ \A n \in 2..Len(ws) : ws[n].start >= ws[n - 1].start

(***************************************************************************)
(* transcribe_with_context as a loop over the opcodes.                     *)
(***************************************************************************)
InitAlign ==
    /\ apc = "start"
    /\ transcribed_words \in Transcripts(MaxT)
    /\ reference_lyrics \in ReferenceLyrics(MaxR)
    /\ ref_words = <<>>
    /\ opcodes = <<>>
    /\ aligned_words = <<>>
    /\ MuteIdle
    /\ PipeIdle
    /\ UnitIdle

\* "if not reference_lyrics: return transcribed_words"
AlignNoReference ==
    /\ apc = "start"
    /\ NoReference(reference_lyrics)
    /\ aligned_words' = transcribed_words
    /\ apc' = "done"
    /\ UNCHANGED <<transcribed_words, reference_lyrics, ref_words, opcodes, muteVars, pipeVars, unitVars>>

\* parse_lyrics, the two normalized lists and matcher.get_opcodes()
AlignStart ==
    /\ apc = "start"
    /\ ~NoReference(reference_lyrics)
    /\ ref_words' = parse_lyrics(reference_lyrics.text)
    /\ opcodes' = get_opcodes(TranscriptNormalized(transcribed_words),
                              NormalizedOf(parse_lyrics(reference_lyrics.text)))
    /\ aligned_words' = <<>>
    /\ apc' = "loop"
    /\ UNCHANGED <<transcribed_words, reference_lyrics, muteVars, pipeVars, unitVars>>

AlignRun(tag) ==
    /\ apc = "loop"
    /\ opcodes # <<>>
    /\ Head(opcodes).tag = tag
    /\ aligned_words' = aligned_words
          \o EmitRun(Head(opcodes), aligned_words, transcribed_words, ref_words)
    /\ opcodes' = Tail(opcodes)
    /\ UNCHANGED <<apc, transcribed_words, reference_lyrics, ref_words, muteVars, pipeVars, unitVars>>

AlignEqual == AlignRun("equal")
AlignReplace == AlignRun("replace")
AlignInsert == AlignRun("insert")
AlignDelete == AlignRun("delete")

\* "return aligned_words"
AlignReturn ==
    /\ apc = "loop"
    /\ opcodes = <<>>
    /\ apc' = "done"
    /\ UNCHANGED <<transcribed_words, reference_lyrics, ref_words, opcodes, aligned_words, muteVars, pipeVars, unitVars>>

NextAlign ==
    \/ AlignNoReference
    \/ AlignStart
    \/ AlignEqual
    \/ AlignReplace
    \/ AlignInsert
    \/ AlignDelete
    \/ AlignReturn

SpecAlign == InitAlign /\ [][NextAlign]_vars

(***************************************************************************)
(* C1.  For a transcript ordered by start with end >= start and any        *)
(* reference, the words returned by transcribe_with_context have           *)
(* non-decreasing timestamps: each word starts at or after the start of    *)
(* the word emitted before it.  (The claim also asks for a start at or     *)
(* after the previous end, which already an unaligned transcript with      *)
(* overlapping words breaks; the formula keeps the part that only the      *)
(* alignment can break.)                                                   *)
(***************************************************************************)
C1_MonotonicOutput ==
    (apc = "done" /\ OrderedTranscript(transcribed_words)) =>
        \A n \in 2..Len(aligned_words) :
            aligned_words[n].start >= aligned_words[n - 1].start

(***************************************************************************)
(* pydub.AudioSegment at millisecond resolution: a buffer is the sequence  *)
(* of its samples, one per ms; 0 is silence.                               *)
(***************************************************************************)
Silence == 0

\* AudioSegment.silent(duration=d): d ms of silence, nothing for d <= 0.
Silent(d) == [p \in 1..Max(d, 0) |-> Silence]

\* seg[:n] for n >= 0 (the bound is clamped to the length)
SliceTo(seg, n) == SubSeq(seg, 1, Min(n, Len(seg)))

\* seg[n:] for n >= 0
SliceFrom(seg, n) == SubSeq(seg, Min(n, Len(seg)) + 1, Len(seg))

\* sorted(sections, key=lambda x: x[0]): a stable insertion sort by start.
RECURSIVE InsertByStart(_, _)
InsertByStart(sorted, x) ==
    IF sorted = <<>> THEN <<x>>
    ELSE IF Last(sorted)[1] <= x[1] THEN Append(sorted, x)
    ELSE Append(InsertByStart(SubSeq(sorted, 1, Len(sorted) - 1), x), Last(sorted))

RECURSIVE SortByStart(_)
SortByStart(secs) ==
    IF secs = <<>> THEN <<>>
    ELSE InsertByStart(SortByStart(SubSeq(secs, 1, Len(secs) - 1)), Last(secs))

\* The body of "for start_sec, end_sec in reversed(sections)".
MuteOne(seg, section) ==
    LET start_ms == Max(0, section[1] - fade_ms)
        end_ms == Min(Len(seg), section[2] + fade_ms)
        duration_ms == end_ms - start_ms
    IN SliceTo(seg, start_ms) \o Silent(duration_ms) \o SliceFrom(seg, end_ms)

RECURSIVE MuteAll(_, _)
MuteAll(seg, sorted) ==
    IF sorted = <<>> THEN seg
    ELSE MuteAll(MuteOne(seg, Last(sorted)), SubSeq(sorted, 1, Len(sorted) - 1))

\* The buffer that mute_sections exports.
mute_sections(seg, secs) == MuteAll(seg, SortByStart(secs))

(***************************************************************************)
(* The inputs of the muting.                                               *)
(***************************************************************************)
AudioLengths == {0, 15, 40}
SectionTimes == {0, 8, 25, 45}

\* A recording of n ms whose sample at position p is p: no two positions
\* hold the same sample and none is silent.
Recording(n) == [p \in 1..n |-> p]

\* Spans as an edit list can hold them, a hand-edited one included: the end
\* of a span need not lie after its start.
Sections(n) == SeqsUpTo(SectionTimes \X SectionTimes, n)

(***************************************************************************)
(* mute_sections as a loop over the sections.                              *)
(***************************************************************************)
InitMute ==
    /\ mpc = "start"
    /\ source_audio \in {Recording(n) : n \in AudioLengths}
    /\ sections \in Sections(MaxSections)
    /\ sorted_sections = <<>>
    /\ audio = <<>>
    /\ mute_run = 1
    /\ first_audio = <<>>
    /\ AlignIdle
    /\ PipeIdle
    /\ UnitIdle

\* AudioSegment.from_file and sorted(sections)
MuteLoad ==
    /\ mpc = "start"
    /\ audio' = source_audio
    /\ sorted_sections' = SortByStart(sections)
    /\ mpc' = "loop"
    /\ UNCHANGED <<source_audio, sections, mute_run, first_audio, alignVars, pipeVars, unitVars>>

\* One iteration, from the last section to the first.
MuteSection ==
    /\ mpc = "loop"
    /\ sorted_sections # <<>>
    /\ audio' = MuteOne(audio, Last(sorted_sections))
    /\ sorted_sections' = SubSeq(sorted_sections, 1, Len(sorted_sections) - 1)
    /\ UNCHANGED <<mpc, source_audio, sections, mute_run, first_audio, alignVars, pipeVars, unitVars>>

\* audio.export
MuteExport ==
    /\ mpc = "loop"
    /\ sorted_sections = <<>>
    /\ mpc' = "done"
    /\ UNCHANGED <<source_audio, sections, sorted_sections, audio, mute_run, first_audio,
                   alignVars, pipeVars, unitVars>>

\* mute_sections called again with the same sections on the file that the
\* first call exported (output_path None: the file was edited in place).
MuteResultAgain ==
    /\ mpc = "done"
    /\ mute_run = 1
    /\ first_audio' = audio
    /\ source_audio' = audio
    /\ mute_run' = 2
    /\ mpc' = "start"
    /\ UNCHANGED <<sections, sorted_sections, audio, alignVars, pipeVars, unitVars>>

\* mute_sections called again with the same sections on the same source
\* file (the first call wrote to another output_path).
MuteSourceAgain ==
    /\ mpc = "done"
    /\ mute_run = 1
    /\ first_audio' = audio
    /\ mute_run' = 2
    /\ mpc' = "start"
    /\ UNCHANGED <<source_audio, sections, sorted_sections, audio, alignVars, pipeVars, unitVars>>

NextMute ==
    \/ MuteLoad
    \/ MuteSection
    \/ MuteExport
    \/ MuteResultAgain
    \/ MuteSourceAgain

SpecMute == InitMute /\ [][NextMute]_vars

\* Position p (the ms from p-1 to p) lies in a widened span of secs.
InWidened(p, secs, L) ==
    \E n \in 1..Len(secs) :
        /\ Max(0, secs[n][1] - fade_ms) <= p - 1
        /\ p - 1 < Min(L, secs[n][2] + fade_ms)

(***************************************************************************)
(* C10.  Muting overwrites in place: for every buffer of length L and      *)
(* every list of spans, mute_sections returns a buffer of length exactly L *)
(* that is silent inside the widened spans and holds the input's sample at *)
(* every other position.                                                   *)
(***************************************************************************)
C10_MuteInPlace ==
    mpc = "done" =>
        /\ Len(audio) = Len(source_audio)
        /\ \A p \in 1..Len(audio) :
              IF InWidened(p, sections, Len(source_audio))
              THEN audio[p] = Silence
              ELSE p <= Len(source_audio) /\ audio[p] = source_audio[p]

\* The same for spans that end at or after their start.
C10_MuteInPlaceForward ==
    (mpc = "done" /\ \A n \in 1..Len(sections) : sections[n][1] <= sections[n][2]) =>
        /\ Len(audio) = Len(source_audio)
        /\ \A p \in 1..Len(audio) :
              IF InWidened(p, sections, Len(source_audio))
              THEN audio[p] = Silence
              ELSE audio[p] = source_audio[p]

(***************************************************************************)
(* ProfanityDetector.                                                      *)
(***************************************************************************)
\* ProfanityDetector._normalize_word
detector_normalize_word(w) == StripNonWord(Lower(w))

\* "profanity in normalized"
IsSubstring(p, w) ==
    \E i \in 0..(Len(w) - Len(p)) : SubSeq(w, i + 1, i + Len(p)) = p

ProfanityMatch(canonical, w) ==
    [word |-> canonical, original_word |-> w.word, start |-> w.start, end |-> w.end,
     confidence |-> w.confidence]

\* The length of the contained entry not looked at.
Mutant_CanonicalChoices(w, lexicon) ==
    LET normalized == detector_normalize_word(w)
    IN IF normalized \in lexicon THEN {normalized}
       ELSE {profanity \in lexicon : IsSubstring(profanity, normalized)}

\* The canonical words detect can record for one word: the normalized word
\* if it is in the lexicon; else any lexicon entry of length >= 4 contained
\* in it, whichever the iteration over the set meets first.
CanonicalChoices(w, lexicon) ==
    LET normalized == detector_normalize_word(w)
    IN IF normalized \in lexicon THEN {normalized}
       ELSE {profanity \in lexicon : IsSubstring(profanity, normalized) /\ Len(profanity) >= 4}

\* The lists detect can return.
RECURSIVE DetectOutcomes(_, _)
DetectOutcomes(ws, lexicon) ==
    IF ws = <<>> THEN {<<>>}
    ELSE LET choices == CanonicalChoices(Head(ws).word, lexicon)
             rest == DetectOutcomes(Tail(ws), lexicon)
         IN IF choices = {} THEN rest
            ELSE {<<ProfanityMatch(c, Head(ws))>> \o r : c \in choices, r \in rest}

\* The pre-check over raw lyrics: the canonical words found among the
\* whitespace-split tokens of the text.
check_text(text, lexicon) ==
    UNION {CanonicalChoices(tok, lexicon) : tok \in Range(Split(text))}

(***************************************************************************)
(* The EDL file (edl.py) as far as the workflows need it: a timestamp text *)
(* "M:SS.mm" is the record of its minutes and its hundredths of a second.  *)
(***************************************************************************)
\* The 60.00 of a rounded-up second shown as 00.00 in the same minute.
Mutant_format_timestamp(ms) ==
    [minutes |-> ms \div 60000, centis |-> (((ms % 60000) + 5) \div 10) % 6000]

\* format_timestamp: minutes = int(seconds // 60), the rest with two decimals.
format_timestamp(ms) ==
    [minutes |-> ms \div 60000, centis |-> ((ms % 60000) + 5) \div 10]

\* parse_timestamp of an "M:SS.mm" text: minutes * 60 + seconds.
parse_timestamp(t) == (t.minutes * 60000) + (t.centis * 10)

\* create_edl followed by EDL.to_dict: one edit per profanity, the observed
\* word, the timestamps as text.
EdlDocument(profs, stems_dir) ==
    [exists |-> TRUE, valid |-> TRUE, stems_dir |-> stems_dir,
     edits |-> [n \in 1..Len(profs) |->
                  [start |-> format_timestamp(profs[n].start),
                   end |-> format_timestamp(profs[n].end),
                   word |-> profs[n].original_word,
                   confidence |-> profs[n].confidence]]]

\* EDL.load of a well-formed document: the edit points with parsed times.
LoadedEdits(doc) ==
    [n \in 1..Len(doc.edits) |->
        [start |-> parse_timestamp(doc.edits[n].start),
         end |-> parse_timestamp(doc.edits[n].end),
         word |-> doc.edits[n].word,
         confidence |-> doc.edits[n].confidence]]

\* edits_for_muting: ProfanityMatch(word=e.word, original_word=e.word, ...)
EditsForMuting(edits) ==
    [n \in 1..Len(edits) |->
        [word |-> edits[n].word, original_word |-> edits[n].word,
         start |-> edits[n].start, end |-> edits[n].end,
         confidence |-> edits[n].confidence]]

\* mute_profanities: sections = [(p.start, p.end) for p in profanities]
SectionsOf(profs) == [n \in 1..Len(profs) |-> <<profs[n].start, profs[n].end>>]

(***************************************************************************)
(* FilterResult and the paths a run works with.                            *)
(***************************************************************************)
FilterResult(out, profs, ws, success, error) ==
    [kind |-> "FilterResult", output_path |-> out, profanities_found |-> profs,
     transcribed_words |-> ws, success |-> success, error |-> error,
     edl_path |-> "None", stems_dir |-> "None"]

\* An exception that leaves the entry point.
Raised(exc) == [NoResult EXCEPT !.kind = "raised", !.error = exc]

\* The output path without a look at overwrite.
Mutant_OutputPath(a) ==
    IF a.output_given THEN "explicit" ELSE "input"

\* "Determine output path": which file of the disk output_path names.
OutputPath(a) ==
    IF a.output_given THEN "explicit"
    ELSE IF a.overwrite THEN "input"
    ELSE "clean"

\* The input is an .mp3; the default and the overwriting output keep its
\* suffix, the explicit output path of the model is a .wav.
IsMp3(path) == path # "explicit"

Truthy(lyrics) == lyrics.some /\ lyrics.text # <<>>

Disk == [files |-> files, edl_file |-> edl_file, stems_fs |-> stems_fs,
         temp_dirs |-> temp_dirs, edit_log |-> edit_log]

\* The returns of filter.
FilterInputNotFound == FilterResult("empty", <<>>, <<>>, FALSE, "Input file not found")
FilterCleanLyrics == FilterResult("None", <<>>, <<>>, TRUE, "None")
\* A cancelled result built like the result of the except branch.
Mutant_FilterCancelled(a, profs, ws) ==
    FilterResult(OutputPath(a), <<>>, <<>>, FALSE, "Cancelled by user")

FilterCancelled(a, profs, ws) ==
    FilterResult(OutputPath(a), profs, ws, FALSE, "Cancelled by user")
FilterNothingFound(ws) == FilterResult("None", <<>>, ws, TRUE, "None")
FilterDone(a, profs, ws) == FilterResult(OutputPath(a), profs, ws, TRUE, "None")
FilterExcept(a, e) == FilterResult(OutputPath(a), <<>>, <<>>, FALSE, e)

\* The check for an empty match list forgotten.
Mutant_FilterAfterDetect(preview_callback, profs) ==
    IF preview_callback /\ profs # <<>> THEN "f_preview" ELSE "f_mute"

\* "if preview_callback and profanities: ... if not profanities: ...": the
\* step that follows detection in filter.
FilterAfterDetect(preview_callback, profs) ==
    IF preview_callback /\ profs # <<>> THEN "f_preview"
    ELSE IF profs = <<>> THEN "returned"
    ELSE "f_mute"

\* filter's finally: "if not self.keep_temp_files and temp_dir.exists()"
FilterFinally(n) == IF ~keep_temp_files THEN n - 1 ELSE n

(***************************************************************************)
(* The inputs of a run.                                                    *)
(***************************************************************************)
la == <<"l", "a">>
damn == <<"d", "a", "m", "n">>
Damn == <<"D", "a", "m", "n", "!">>

\* A part of _get_default_words.
DefaultWords == {damn, <<"a", "s", "s">>, <<"h", "e", "l", "l">>}

\* What the transcriber can return for the vocals of the input.
VocalTranscripts ==
    {<<>>,
     <<TranscribedWord(la, 0, 600, 900)>>,
     <<TranscribedWord(Damn, 600, 1200, 900)>>,
     <<TranscribedWord(la, 0, 600, 900), TranscribedWord(damn, 600, 1200, 400)>>}

\* The lyrics argument.
LyricsArgs == {None, Some(la), Some(la \o <<" ">> \o damn)}

\* The edits an EDL file can hold, as written by generate_edl or by hand.
EdlEdits ==
    {[start |-> format_timestamp(600), end |-> format_timestamp(1200),
      word |-> Damn, confidence |-> 900],
     [start |-> format_timestamp(61800), end |-> format_timestamp(62400),
      word |-> damn, confidence |-> 400]}

\* The EDL file: none, one that does not load (no JSON, a required field
\* missing, an unreadable timestamp), or a well-formed one.
EdlFiles ==
    {NoEdl, [exists |-> TRUE, valid |-> FALSE, stems_dir |-> FALSE, edits |-> <<>>]}
    \cup {[exists |-> TRUE, valid |-> TRUE, stems_dir |-> d, edits |-> es] :
            d \in BOOLEAN, es \in SeqsUpTo(EdlEdits, MaxEdits)}

\* The stem directory: none, or one with any of its two stem files.
StemDirs ==
    {NoStems} \cup {[exists |-> TRUE, vocals |-> v, no_vocals |-> i] : v, i \in BOOLEAN}

FilterArgs ==
    {a \in [output_given : BOOLEAN, overwrite : BOOLEAN, preview_callback : BOOLEAN,
            lyrics : LyricsArgs] : ~(a.output_given /\ a.overwrite)}
GenerateArgs == {[NoArgs EXCEPT !.lyrics = l] : l \in LyricsArgs}
ApplyArgs ==
    {a \in [output_given : BOOLEAN, overwrite : BOOLEAN, preview_callback : {FALSE},
            lyrics : {None}] : ~(a.output_given /\ a.overwrite)}

(***************************************************************************)
(* MusicProfanityFilter.__init__ and the disk it finds.                    *)
(***************************************************************************)
Init ==
    /\ ppc = "idle"
    /\ workflow = "none"
    /\ args = NoArgs
    /\ keep_temp_files \in BOOLEAN
    /\ profanity_set = DefaultWords
    /\ files \in {[input |-> i, clean |-> "absent", explicit |-> "absent"] :
                     i \in {"absent", "original"}}
    /\ edl_file \in EdlFiles
    /\ stems_fs \in StemDirs
    /\ temp_dirs = 0
    /\ edit_log = 0
    /\ before = NoDisk
    /\ temp_dir = "unbound"
    /\ words = <<>>
    /\ profanities = <<>>
    /\ edl = NoEdl
    /\ calls = <<>>
    /\ muted = <<>>
    /\ exported = FALSE
    /\ outcome = "none"
    /\ result = NoResult
    /\ AlignIdle
    /\ MuteIdle
    /\ UnitIdle

\* The run ends: what it returns or raises, and why.
Returns(res, why) ==
    /\ ppc' = "returned"
    /\ result' = res
    /\ outcome' = why

\* The run goes on with the step next.
Continues(next) ==
    /\ ppc' = next
    /\ UNCHANGED <<result, outcome>>

\* combined.export(str(output_path)): the file output_path names is written.
Exported(fs, path) == [fs EXCEPT ![path] = "exported"]

\* metadata.write_edit_log(input_path, edits): pipeline.py imports and calls
\* it, metadata.py does not hold it.  It is taken to record the run and to
\* return.
write_edit_log(log) == log + 1

(***************************************************************************)
(* MusicProfanityFilter.filter                                             *)
(***************************************************************************)
\* Lines 85-128: the input check, the output path, the lyrics pre-check and
\* mkdtemp.
CallFilter ==
    /\ ppc = "idle"
    /\ \E a \in FilterArgs :
         LET missing == files.input = "absent"
             checked == ~missing /\ Truthy(a.lyrics)
             clean == checked /\ check_text(a.lyrics.text, profanity_set) = {}
         IN /\ workflow' = "filter"
            /\ args' = a
            /\ before' = Disk
            /\ calls' = IF checked THEN <<"check_text">> ELSE <<>>
            /\ IF missing THEN Returns(FilterInputNotFound, "input_not_found")
               ELSE IF clean THEN Returns(FilterCleanLyrics, "clean_lyrics")
               ELSE Continues("f_separate")
            /\ temp_dir' = IF missing \/ clean THEN "unbound" ELSE "dir"
            /\ temp_dirs' = IF missing \/ clean THEN temp_dirs ELSE temp_dirs + 1
    /\ UNCHANGED <<cfgVars, diskVars, words, profanities, edl, muted, exported>>
    /\ UNCHANGED <<alignVars, muteVars, unitVars>>

\* "except Exception as e" and "finally" of filter.
FilterFails(step, e) ==
    /\ Returns(FilterExcept(args, e), step)
    /\ temp_dirs' = FilterFinally(temp_dirs)

\* self.separator.separate(input_path, output_dir=temp_dir)
FilterSeparate ==
    /\ ppc = "f_separate"
    /\ calls' = Append(calls, "separate")
    /\ \E ok \in BOOLEAN :
         IF ok THEN Continues("f_transcribe") /\ UNCHANGED temp_dirs
         ELSE FilterFails("separate_failed", "Demucs failed")
    /\ UNCHANGED <<cfgVars, callVars, diskVars, localVars>>
    /\ UNCHANGED <<alignVars, muteVars, unitVars>>

\* transcribe_with_context(vocals_path, lyrics) or transcribe(vocals_path)
FilterTranscribe ==
    /\ ppc = "f_transcribe"
    /\ calls' = Append(calls, "transcribe")
    /\ \/ \E t \in VocalTranscripts :
            /\ words' = IF Truthy(args.lyrics)
                        THEN transcribe_with_context(t, args.lyrics) ELSE t
            /\ Continues("f_detect")
            /\ UNCHANGED temp_dirs
       \/ /\ FilterFails("transcribe_failed", "Transcription failed")
          /\ UNCHANGED words
    /\ UNCHANGED <<cfgVars, callVars, diskVars, temp_dir, profanities, edl, muted, exported>>
    /\ UNCHANGED <<alignVars, muteVars, unitVars>>

\* self.detector.detect(words), then lines 152-171: no callback is asked and
\* nothing is muted when nothing was found.
FilterDetect ==
    /\ ppc = "f_detect"
    /\ calls' = Append(calls, "detect")
    /\ \E profs \in DetectOutcomes(words, profanity_set) :
         /\ profanities' = profs
         /\ IF FilterAfterDetect(args.preview_callback, profs) = "returned"
            THEN /\ Returns(FilterNothingFound(words), "nothing_found")
                 /\ temp_dirs' = FilterFinally(temp_dirs)
            ELSE /\ Continues(FilterAfterDetect(args.preview_callback, profs))
                 /\ UNCHANGED temp_dirs
    /\ UNCHANGED <<cfgVars, callVars, diskVars, temp_dir, words, edl, muted, exported>>
    /\ UNCHANGED <<alignVars, muteVars, unitVars>>

\* "if not preview_callback(profanities): return FilterResult(...)"
FilterPreview ==
    /\ ppc = "f_preview"
    /\ calls' = Append(calls, "preview")
    /\ \E proceed \in BOOLEAN :
         IF proceed THEN Continues("f_mute") /\ UNCHANGED temp_dirs
         ELSE /\ Returns(FilterCancelled(args, profanities, words), "cancelled")
              /\ temp_dirs' = FilterFinally(temp_dirs)
    /\ UNCHANGED <<cfgVars, callVars, diskVars, localVars>>
    /\ UNCHANGED <<alignVars, muteVars, unitVars>>

\* self.editor.mute_profanities(vocals_path, profanities, edited_vocals_path)
FilterMute ==
    /\ ppc = "f_mute"
    /\ calls' = Append(calls, "mute")
    /\ muted' = SectionsOf(profanities)
    /\ \E ok \in BOOLEAN :
         IF ok THEN Continues("f_export") /\ UNCHANGED temp_dirs
         ELSE FilterFails("mute_failed", "Muting failed")
    /\ UNCHANGED <<cfgVars, callVars, diskVars, temp_dir, words, profanities, edl, exported>>
    /\ UNCHANGED <<alignVars, muteVars, unitVars>>

\* self.editor.combine_stems(edited_vocals_path, instrumentals_path, output_path)
FilterExport ==
    /\ ppc = "f_export"
    /\ calls' = Append(calls, "export")
    /\ \E ok \in BOOLEAN :
         IF ok
         THEN /\ files' = Exported(files, OutputPath(args))
              /\ exported' = TRUE
              /\ Continues("f_copy_tags")
              /\ UNCHANGED temp_dirs
         ELSE /\ FilterFails("export_failed", "Export failed")
              /\ UNCHANGED <<files, exported>>
    /\ UNCHANGED <<cfgVars, callVars, edl_file, stems_fs, edit_log>>
    /\ UNCHANGED <<temp_dir, words, profanities, edl, muted>>
    /\ UNCHANGED <<alignVars, muteVars, unitVars>>

\* copy_tags(input_path, output_path): an exception of mutagen other than
\* ID3NoHeaderError on the source leaves copy_tags and reaches filter's except.
FilterCopyTags ==
    /\ ppc = "f_copy_tags"
    /\ calls' = Append(calls, "copy_tags")
    /\ \E ok \in BOOLEAN :
         IF ok
         THEN /\ Continues(IF words # <<>> /\ IsMp3(OutputPath(args))
                           THEN "f_embed" ELSE "f_edit_log")
              /\ UNCHANGED temp_dirs
         ELSE FilterFails("copy_tags_failed", "Tag copy failed")
    /\ UNCHANGED <<cfgVars, callVars, diskVars, localVars>>
    /\ UNCHANGED <<alignVars, muteVars, unitVars>>

\* embed_synced_lyrics(output_path, words)
FilterEmbedLyrics ==
    /\ ppc = "f_embed"
    /\ calls' = Append(calls, "embed_synced_lyrics")
    /\ \E ok \in BOOLEAN :
         IF ok THEN Continues("f_edit_log") /\ UNCHANGED temp_dirs
         ELSE FilterFails("embed_failed", "Lyrics embedding failed")
    /\ UNCHANGED <<cfgVars, callVars, diskVars, localVars>>
    /\ UNCHANGED <<alignVars, muteVars, unitVars>>

\* write_edit_log(input_path, profanities) and the final return
FilterEditLog ==
    /\ ppc = "f_edit_log"
    /\ calls' = Append(calls, "write_edit_log")
    /\ edit_log' = write_edit_log(edit_log)
    /\ Returns(FilterDone(args, profanities, words), "done")
    /\ temp_dirs' = FilterFinally(temp_dirs)
    /\ UNCHANGED <<cfgVars, callVars, files, edl_file, stems_fs, localVars>>
    /\ UNCHANGED <<alignVars, muteVars, unitVars>>

(***************************************************************************)
(* MusicProfanityFilter.detect_only: try/finally without except; the       *)
(* matches are returned as a bare list.                                    *)
(***************************************************************************)
ListResult(profs) == [NoResult EXCEPT !.kind = "list", !.profanities_found = profs]

\* detect_only's finally: "if not self.keep_temp_files: shutil.rmtree(temp_dir)"
DetectOnlyFinally(n) == IF ~keep_temp_files THEN n - 1 ELSE n

DetectOnlyFails(step, exc) ==
    /\ Returns(Raised(exc), step)
    /\ temp_dirs' = DetectOnlyFinally(temp_dirs)

\* Lines 236-237: no input check, mkdtemp.
CallDetectOnly ==
    /\ ppc = "idle"
    /\ workflow' = "detect_only"
    /\ args' = NoArgs
    /\ before' = Disk
    /\ calls' = <<>>
    /\ temp_dir' = "dir"
    /\ temp_dirs' = temp_dirs + 1
    /\ Continues("d_separate")
    /\ UNCHANGED <<cfgVars, diskVars, words, profanities, edl, muted, exported>>
    /\ UNCHANGED <<alignVars, muteVars, unitVars>>

\* separate raises FileNotFoundError when the input does not exist.
DetectOnlySeparate ==
    /\ ppc = "d_separate"
    /\ calls' = Append(calls, "separate")
    /\ IF files.input = "absent"
       THEN DetectOnlyFails("separate_failed", "FileNotFoundError")
       ELSE \E ok \in BOOLEAN :
              IF ok THEN Continues("d_transcribe") /\ UNCHANGED temp_dirs
              ELSE DetectOnlyFails("separate_failed", "RuntimeError")
    /\ UNCHANGED <<cfgVars, callVars, diskVars, localVars>>
    /\ UNCHANGED <<alignVars, muteVars, unitVars>>

DetectOnlyTranscribe ==
    /\ ppc = "d_transcribe"
    /\ calls' = Append(calls, "transcribe")
    /\ \/ \E t \in VocalTranscripts :
            /\ words' = t
            /\ Continues("d_detect")
            /\ UNCHANGED temp_dirs
       \/ /\ DetectOnlyFails("transcribe_failed", "RuntimeError")
          /\ UNCHANGED words
    /\ UNCHANGED <<cfgVars, callVars, diskVars, temp_dir, profanities, edl, muted, exported>>
    /\ UNCHANGED <<alignVars, muteVars, unitVars>>

DetectOnlyDetect ==
    /\ ppc = "d_detect"
    /\ calls' = Append(calls, "detect")
    /\ \E profs \in DetectOutcomes(words, profanity_set) :
         /\ profanities' = profs
         /\ Returns(ListResult(profs), IF profs = <<>> THEN "nothing_found" ELSE "done")
    /\ temp_dirs' = DetectOnlyFinally(temp_dirs)
    /\ UNCHANGED <<cfgVars, callVars, diskVars, temp_dir, words, edl, muted, exported>>
    /\ UNCHANGED <<alignVars, muteVars, unitVars>>

(***************************************************************************)
(* MusicProfanityFilter.generate_edl                                       *)
(***************************************************************************)
EdlResult(out, profs, ws, success, error, edl_path, stems_dir) ==
    [FilterResult(out, profs, ws, success, error)
       EXCEPT !.edl_path = edl_path, !.stems_dir = stems_dir]

GenerateInputNotFound == FilterResult("None", <<>>, <<>>, FALSE, "Input file not found")
GenerateCleanLyrics == FilterResult("None", <<>>, <<>>, TRUE, "None")
GenerateNothingFound(ws) == FilterResult("None", <<>>, ws, TRUE, "None")
GenerateDone(profs, ws) == EdlResult("None", profs, ws, TRUE, "None", "edl", "stems")
GenerateExcept(e) == FilterResult("None", <<>>, <<>>, FALSE, e)

\* stems_dir.mkdir(parents=True, exist_ok=True): what is in it stays.
MkdirStems(dir) == [dir EXCEPT !.exists = TRUE]

\* Demucs writes both stems below output_dir.
SeparatedInto(dir) == [exists |-> TRUE, vocals |-> TRUE, no_vocals |-> TRUE]

\* The stem directory left behind when nothing was found.
Mutant_GenerateNoProfanityStems(dir) == dir

\* "if not profanities: shutil.rmtree(stems_dir)"
GenerateNoProfanityStems(dir) == NoStems

\* Lines 274-316: the input check, the paths, mkdir of the stem directory,
\* then the lyrics pre-check.
CallGenerateEdl ==
    /\ ppc = "idle"
    /\ \E a \in GenerateArgs :
         LET missing == files.input = "absent"
             checked == ~missing /\ Truthy(a.lyrics)
             clean == checked /\ check_text(a.lyrics.text, profanity_set) = {}
         IN /\ workflow' = "generate_edl"
            /\ args' = a
            /\ before' = Disk
            /\ calls' = IF checked THEN <<"check_text">> ELSE <<>>
            /\ stems_fs' = IF missing THEN stems_fs ELSE MkdirStems(stems_fs)
            /\ IF missing THEN Returns(GenerateInputNotFound, "input_not_found")
               ELSE IF clean THEN Returns(GenerateCleanLyrics, "clean_lyrics")
               ELSE Continues("g_separate")
    /\ UNCHANGED <<cfgVars, files, edl_file, edit_log, temp_dirs, localVars>>
    /\ UNCHANGED <<alignVars, muteVars, unitVars>>

\* self.separator.separate(input_path, output_dir=stems_dir)
GenerateSeparate ==
    /\ ppc = "g_separate"
    /\ calls' = Append(calls, "separate")
    /\ \E ok \in BOOLEAN :
         IF ok THEN Continues("g_transcribe") /\ stems_fs' = SeparatedInto(stems_fs)
         ELSE Returns(GenerateExcept("Demucs failed"), "separate_failed")
              /\ UNCHANGED stems_fs
    /\ UNCHANGED <<cfgVars, callVars, files, edl_file, edit_log, temp_dirs, localVars>>
    /\ UNCHANGED <<alignVars, muteVars, unitVars>>

GenerateTranscribe ==
    /\ ppc = "g_transcribe"
    /\ calls' = Append(calls, "transcribe")
    /\ \/ \E t \in VocalTranscripts :
            /\ words' = IF Truthy(args.lyrics)
                        THEN transcribe_with_context(t, args.lyrics) ELSE t
            /\ Continues("g_detect")
       \/ /\ Returns(GenerateExcept("Transcription failed"), "transcribe_failed")
          /\ UNCHANGED words
    /\ UNCHANGED <<cfgVars, callVars, diskVars, temp_dirs>>
    /\ UNCHANGED <<temp_dir, profanities, edl, muted, exported>>
    /\ UNCHANGED <<alignVars, muteVars, unitVars>>

\* self.detector.detect(words); without a match the stem directory is
\* removed and the run returns.
GenerateDetect ==
    /\ ppc = "g_detect"
    /\ calls' = Append(calls, "detect")
    /\ \E profs \in DetectOutcomes(words, profanity_set) :
         /\ profanities' = profs
         /\ IF profs = <<>>
            THEN /\ stems_fs' = GenerateNoProfanityStems(stems_fs)
                 /\ Returns(GenerateNothingFound(words), "nothing_found")
            ELSE /\ Continues("g_save")
                 /\ UNCHANGED stems_fs
    /\ UNCHANGED <<cfgVars, callVars, files, edl_file, edit_log, temp_dirs>>
    /\ UNCHANGED <<temp_dir, words, edl, muted, exported>>
    /\ UNCHANGED <<alignVars, muteVars, unitVars>>

\* create_edl(input_path, profanities, stems_dir) and edl.save(edl_path)
GenerateSaveEdl ==
    /\ ppc = "g_save"
    /\ calls' = Append(calls, "save_edl")
    /\ edl_file' = EdlDocument(profanities, TRUE)
    /\ Returns(GenerateDone(profanities, words), "done")
    /\ UNCHANGED <<cfgVars, callVars, files, stems_fs, edit_log, temp_dirs, localVars>>
    /\ UNCHANGED <<alignVars, muteVars, unitVars>>

(***************************************************************************)
(* MusicProfanityFilter.apply_edl                                          *)
(***************************************************************************)
ApplyInputNotFound == FilterResult("None", <<>>, <<>>, FALSE, "Input file not found")
ApplyEdlNotFound == FilterResult("None", <<>>, <<>>, FALSE, "EDL file not found")
ApplyDone(a, profs) == FilterResult(OutputPath(a), profs, <<>>, TRUE, "None")
ApplyExcept(e) == FilterResult("None", <<>>, <<>>, FALSE, e)

\* The look for no_vocals.wav forgotten.
Mutant_ApplyNeedsSeparation(doc, dir) ==
    ~(doc.stems_dir /\ dir.exists /\ dir.vocals)

\* Lines 445-461: separation is needed unless the EDL names a stem
\* directory that exists and holds a vocals.wav and a no_vocals.wav.
ApplyNeedsSeparation(doc, dir) ==
    ~(doc.stems_dir /\ dir.exists /\ dir.vocals /\ dir.no_vocals)

\* apply_edl's finally, "if temp_dir and temp_dir.exists() and not
\* self.keep_temp_files", once temp_dir has been assigned.
ApplyFinally(n) == IF temp_dir = "dir" /\ ~keep_temp_files THEN n - 1 ELSE n

\* shutil.rmtree(path) as the persistent stem directory sees it.
rmtree(dir, path) == IF path = "stems_dir" THEN NoStems ELSE dir

\* A finally block that removes the directory the stems were read from.
Mutant_ApplyRemoves ==
    IF keep_temp_files THEN "None"
    ELSE IF temp_dir = "dir" THEN "temp_dir" ELSE "stems_dir"

\* The directory that apply_edl's finally block removes: temp_dir, the
\* mkdtemp directory of a new separation, and never edl.stems_dir.
ApplyRemoves ==
    IF temp_dir = "dir" /\ ~keep_temp_files THEN "temp_dir" ELSE "None"

\* "except Exception as e" and "finally" of apply_edl after line 460.
ApplyFails(step, e) ==
    /\ Returns(ApplyExcept(e), step)
    /\ temp_dirs' = ApplyFinally(temp_dirs)
    /\ stems_fs' = rmtree(stems_fs, ApplyRemoves)

\* Lines 397-427: the two existence checks and the output path.
CallApplyEdl ==
    /\ ppc = "idle"
    /\ \E a \in ApplyArgs :
         /\ workflow' = "apply_edl"
         /\ args' = a
         /\ before' = Disk
         /\ calls' = <<>>
         /\ IF files.input = "absent"
            THEN Returns(ApplyInputNotFound, "input_not_found")
            ELSE IF ~edl_file.exists
            THEN Returns(ApplyEdlNotFound, "edl_not_found")
            ELSE Continues("a_load")
    /\ UNCHANGED <<cfgVars, diskVars, temp_dirs, localVars>>
    /\ UNCHANGED <<alignVars, muteVars, unitVars>>

\* EDL.load(edl_path), the early return for an empty edit list, the look
\* for cached stems and mkdtemp.  temp_dir is first assigned on line 460: a
\* run that leaves the try block before it finds temp_dir unbound in the
\* finally block, which raises UnboundLocalError in place of the return.
ApplyLoad ==
    /\ ppc = "a_load"
    /\ calls' = Append(calls, "load_edl")
    /\ IF ~edl_file.valid
       THEN /\ Returns(Raised("UnboundLocalError"), "load_failed")
            /\ UNCHANGED <<edl, temp_dir, temp_dirs, profanities>>
       ELSE LET loaded == [edl_file EXCEPT !.edits = LoadedEdits(edl_file)]
            IN /\ edl' = loaded
               /\ IF loaded.edits = <<>>
                  THEN /\ Returns(Raised("UnboundLocalError"), "empty_edl")
                       /\ UNCHANGED <<temp_dir, temp_dirs, profanities>>
                  ELSE /\ profanities' = EditsForMuting(loaded.edits)
                       /\ IF ApplyNeedsSeparation(loaded, stems_fs)
                          THEN /\ temp_dir' = "dir"
                               /\ temp_dirs' = temp_dirs + 1
                               /\ Continues("a_separate")
                          ELSE /\ temp_dir' = "None"
                               /\ UNCHANGED temp_dirs
                               /\ Continues("a_mute")
    /\ UNCHANGED <<cfgVars, callVars, diskVars, words, muted, exported>>
    /\ UNCHANGED <<alignVars, muteVars, unitVars>>

\* self.separator.separate(input_path, output_dir=temp_dir)
ApplySeparate ==
    /\ ppc = "a_separate"
    /\ calls' = Append(calls, "separate")
    /\ \E ok \in BOOLEAN :
         IF ok THEN Continues("a_mute") /\ UNCHANGED <<temp_dirs, stems_fs>>
         ELSE ApplyFails("separate_failed", "Demucs failed")
    /\ UNCHANGED <<cfgVars, callVars, files, edl_file, edit_log, localVars>>
    /\ UNCHANGED <<alignVars, muteVars, unitVars>>

\* edit_temp_dir = temp_dir or mkdtemp(prefix="music_filter_edit_"), then
\* mute_profanities(vocals_path, edits_for_muting, edited_vocals_path)
ApplyMute ==
    /\ ppc = "a_mute"
    /\ calls' = Append(calls, "mute")
    /\ muted' = SectionsOf(profanities)
    /\ \E ok \in BOOLEAN :
         LET made == IF temp_dir = "dir" THEN temp_dirs ELSE temp_dirs + 1
         IN IF ok THEN Continues("a_export") /\ temp_dirs' = made /\ UNCHANGED stems_fs
            ELSE /\ Returns(ApplyExcept("Muting failed"), "mute_failed")
                 /\ temp_dirs' = ApplyFinally(made)
                 /\ stems_fs' = rmtree(stems_fs, ApplyRemoves)
    /\ UNCHANGED <<cfgVars, callVars, files, edl_file, edit_log>>
    /\ UNCHANGED <<temp_dir, words, profanities, edl, exported>>
    /\ UNCHANGED <<alignVars, muteVars, unitVars>>

ApplyExport ==
    /\ ppc = "a_export"
    /\ calls' = Append(calls, "export")
    /\ \E ok \in BOOLEAN :
         IF ok
         THEN /\ files' = Exported(files, OutputPath(args))
              /\ exported' = TRUE
              /\ Continues("a_copy_tags")
              /\ UNCHANGED <<temp_dirs, stems_fs>>
         ELSE /\ ApplyFails("export_failed", "Export failed")
              /\ UNCHANGED <<files, exported>>
    /\ UNCHANGED <<cfgVars, callVars, edl_file, edit_log>>
    /\ UNCHANGED <<temp_dir, words, profanities, edl, muted>>
    /\ UNCHANGED <<alignVars, muteVars, unitVars>>

ApplyCopyTags ==
    /\ ppc = "a_copy_tags"
    /\ calls' = Append(calls, "copy_tags")
    /\ \E ok \in BOOLEAN :
         IF ok THEN Continues("a_edit_log") /\ UNCHANGED <<temp_dirs, stems_fs>>
         ELSE ApplyFails("copy_tags_failed", "Tag copy failed")
    /\ UNCHANGED <<cfgVars, callVars, files, edl_file, edit_log, localVars>>
    /\ UNCHANGED <<alignVars, muteVars, unitVars>>

ApplyEditLog ==
    /\ ppc = "a_edit_log"
    /\ calls' = Append(calls, "write_edit_log")
    /\ edit_log' = write_edit_log(edit_log)
    /\ Returns(ApplyDone(args, profanities), "done")
    /\ temp_dirs' = ApplyFinally(temp_dirs)
    /\ stems_fs' = rmtree(stems_fs, ApplyRemoves)
    /\ UNCHANGED <<cfgVars, callVars, files, edl_file, localVars>>
    /\ UNCHANGED <<alignVars, muteVars, unitVars>>

(***************************************************************************)
(* The workflows.                                                          *)
(***************************************************************************)
Next ==
    \/ CallFilter
    \/ FilterSeparate
    \/ FilterTranscribe
    \/ FilterDetect
    \/ FilterPreview
    \/ FilterMute
    \/ FilterExport
    \/ FilterCopyTags
    \/ FilterEmbedLyrics
    \/ FilterEditLog
    \/ CallDetectOnly
    \/ DetectOnlySeparate
    \/ DetectOnlyTranscribe
    \/ DetectOnlyDetect
    \/ CallGenerateEdl
    \/ GenerateSeparate
    \/ GenerateTranscribe
    \/ GenerateDetect
    \/ GenerateSaveEdl
    \/ CallApplyEdl
    \/ ApplyLoad
    \/ ApplySeparate
    \/ ApplyMute
    \/ ApplyExport
    \/ ApplyCopyTags
    \/ ApplyEditLog

Spec == Init /\ [][Next]_vars

(***************************************************************************)
(* Vocabulary of the claims about the workflows.                           *)
(***************************************************************************)
Called(name) == name \in Range(calls)
Returned(wf) == ppc = "returned" /\ workflow = wf

\* Position i of calls is preceded by a call of name.
CalledBefore(name, i) == \E j \in 1..(i - 1) : calls[j] = name

\* The outcomes in which a collaborator of the workflow failed.
CollaboratorFailures ==
    {"separate_failed", "transcribe_failed", "load_failed", "mute_failed", "export_failed"}
MetadataFailures == {"copy_tags_failed", "embed_failed"}
HardFailures ==
    CollaboratorFailures \cup MetadataFailures \cup {"input_not_found", "edl_not_found"}

(***************************************************************************)
(* C2.  A failure anywhere in filter, generate_edl or apply_edl ends the   *)
(* run with success=false and never leaves an output file: in every run    *)
(* that ends with success=false the output file has not been written and   *)
(* the original has not been replaced.                                     *)
(***************************************************************************)
C2_FailureLeavesNoOutput ==
    (/\ ppc = "returned"
     /\ workflow \in {"filter", "generate_edl", "apply_edl"}
     /\ result.kind = "FilterResult"
     /\ ~result.success)
    => (~exported /\ files = before.files)

(***************************************************************************)
(* C3.  Every entry point returns a result object whatever its             *)
(* collaborators do: when the separator, the transcriber, EDL loading or   *)
(* the editor fails, the call returns a FilterResult with success=false    *)
(* and an error, and no exception leaves the entry point.                  *)
(***************************************************************************)
C3_FailuresReturnResults ==
    (ppc = "returned" /\ outcome \in CollaboratorFailures)
    => (result.kind = "FilterResult" /\ ~result.success /\ result.error # "None")

(***************************************************************************)
(* C4.  A failure of copy_tags or embed_synced_lyrics, which run only      *)
(* after the export, is not fatal: the run still ends with success=true    *)
(* and output_path set to the exported file.                               *)
(***************************************************************************)
C4_MetadataFailureNotFatal ==
    (ppc = "returned" /\ outcome \in MetadataFailures)
    => (/\ exported
        /\ result.kind = "FilterResult"
        /\ result.success
        /\ result.output_path = OutputPath(args))

(***************************************************************************)
(* C5.  generate_edl with lyrics that hold no lexicon word returns before  *)
(* separation and transcription with success=true and no match, and no     *)
(* stem directory has been created on disk when it returns.                *)
(***************************************************************************)
C5_CleanLyricsCreateNothing ==
    (Returned("generate_edl") /\ outcome = "clean_lyrics")
    => (/\ result.success
        /\ result.profanities_found = <<>>
        /\ ~Called("separate")
        /\ ~Called("transcribe")
        /\ (stems_fs.exists => before.stems_fs.exists))

CacheUsable ==
    /\ edl.stems_dir
    /\ before.stems_fs.exists
    /\ before.stems_fs.vocals
    /\ before.stems_fs.no_vocals

\* apply_edl has loaded its EDL.
Loaded == Called("load_edl") /\ outcome # "load_failed"

\* The editor was handed exactly the edit points of the loaded EDL.
MutedAreEdits ==
    /\ Len(muted) = Len(edl.edits)
    /\ \A n \in 1..Len(muted) : muted[n] = <<edl.edits[n].start, edl.edits[n].end>>

(***************************************************************************)
(* C7 as stated.  apply_edl invokes the separation if and only if the      *)
(* cache directory of the EDL is absent, missing on disk or lacks a stem;  *)
(* it never invokes the transcriber or the detector; the spans muted are   *)
(* exactly the edit points of the loaded EDL.                              *)
(***************************************************************************)
C7_SeparationIffNoCache ==
    (Returned("apply_edl") /\ Loaded)
    => (/\ Called("separate") <=> ~CacheUsable
        /\ ~Called("transcribe")
        /\ ~Called("detect")
        /\ Called("mute") => MutedAreEdits)

(***************************************************************************)
(* C7 as amended.  In an apply_edl run whose loaded EDL has at least one   *)
(* edit point, the separation is invoked if and only if the cache          *)
(* directory is absent, missing on disk or lacks a stem; a loaded EDL      *)
(* without edit points ends the run before separation and muting.  No      *)
(* apply_edl run invokes the transcriber or the detector, and the spans    *)
(* handed to the editor are exactly the edit points of the loaded EDL.     *)
(***************************************************************************)
C7_SeparationIffNoCacheWithEdits ==
    /\ workflow = "apply_edl" => (~Called("transcribe") /\ ~Called("detect"))
    /\ (workflow = "apply_edl" /\ Called("mute")) => MutedAreEdits
    /\ (Returned("apply_edl") /\ Loaded)
       => IF edl.edits # <<>>
          THEN Called("separate") <=> ~CacheUsable
          ELSE ~Called("separate") /\ ~Called("mute")

C7_Witness ==
    /\ Returned("apply_edl")
    /\ outcome = "done"
    /\ Len(edl.edits) = 2
    /\ CacheUsable
    /\ ~Called("separate")
    /\ MutedAreEdits

(***************************************************************************)
(* C8.  In filter the preview callback is invoked only after detection and *)
(* before any muting or export.  When it declines, the run ends cancelled: *)
(* unlike a successful run it has success=false, unlike a hard failure it  *)
(* reports the detected matches, and nothing was muted, exported, tagged   *)
(* or logged.                                                              *)
(***************************************************************************)
C8_PreviewGate ==
    /\ \A i \in 1..Len(calls) :
          calls[i] = "preview"
          => (/\ workflow = "filter"
              /\ CalledBefore("detect", i)
              /\ ~CalledBefore("mute", i)
              /\ ~CalledBefore("export", i))
    /\ (ppc = "returned" /\ outcome = "cancelled")
       => (/\ result.kind = "FilterResult"
           /\ ~result.success
           /\ result.error = "Cancelled by user"
           /\ result.profanities_found = profanities
           /\ profanities # <<>>
           /\ ~Called("mute") /\ ~Called("export") /\ ~Called("copy_tags")
           /\ ~Called("embed_synced_lyrics") /\ ~Called("write_edit_log")
           /\ ~exported
           /\ files = before.files
           /\ edit_log = before.edit_log)
    /\ (Returned("filter") /\ outcome \in HardFailures)
       => (~result.success /\ result.profanities_found = <<>>)
    /\ (Returned("filter") /\ outcome \in {"done", "nothing_found", "clean_lyrics"})
       => result.success

C8_Witness ==
    /\ Returned("filter")
    /\ outcome = "cancelled"
    /\ Called("preview")
    /\ Len(result.profanities_found) = 1

(***************************************************************************)
(* C9.  In filter, when detection returns no match the run ends with       *)
(* success=true, no error, no output_path and no output file, and the      *)
(* editor is never invoked; every error outcome has success=false, so      *)
(* "nothing found" cannot be taken for an error.                           *)
(***************************************************************************)
C9_NothingFound ==
    /\ (Returned("filter") /\ Called("detect") /\ profanities = <<>>)
       => (/\ outcome = "nothing_found"
           /\ result.kind = "FilterResult"
           /\ result.success
           /\ result.error = "None"
           /\ result.output_path = "None"
           /\ ~exported
           /\ files = before.files
           /\ ~Called("mute")
           /\ ~Called("export"))
    /\ (Returned("filter") /\ outcome \in HardFailures \cup {"cancelled"})
       => (~result.success /\ result.error # "None")

C9_Witness ==
    /\ Returned("filter")
    /\ Called("detect")
    /\ profanities = <<>>
    /\ words # <<>>
    /\ args.preview_callback

(***************************************************************************)
(* edl.py at the level of the text: Python's int() and float() on the      *)
(* literals that the characters of the model can spell (an optional sign,  *)
(* digits, a decimal point; surrounding whitespace is ignored).  A value    *)
(* parsed from text is a whole number of ticks of 10^-4 s, which holds     *)
(* every number that the texts of the model spell.                         *)
(***************************************************************************)
Digits == <<"0", "1", "2", "3", "4", "5", "6", "7", "8", "9">>
DigitChars == Range(Digits)
DigitValue(c) == (CHOOSE n \in 1..Len(Digits) : Digits[n] = c) - 1

Ok(v) == [ok |-> TRUE, value |-> v, error |-> "None"]
Err(e) == [ok |-> FALSE, value |-> 0, error |-> e]

RECURSIVE Pow10(_)
Pow10(n) == IF n = 0 THEN 1 ELSE 10 * Pow10(n - 1)

\* One second and one millisecond in the unit of parsed values.
TicksPerSecond == Pow10(4)
TicksPerMs == Pow10(1)

IsDigits(s) == s # <<>> /\ \A i \in 1..Len(s) : s[i] \in DigitChars

RECURSIVE DigitsValue(_)
DigitsValue(s) ==
    IF s = <<>> THEN 0
    ELSE (10 * DigitsValue(SubSeq(s, 1, Len(s) - 1))) + DigitValue(Last(s))

\* The decimal text of a natural number: f"{minutes}"
RECURSIVE Decimal(_)
Decimal(n) ==
    IF n < 10 THEN <<Digits[n + 1]>>
    ELSE Decimal(n \div 10) \o <<Digits[(n % 10) + 1]>>

\* str.strip()
RECURSIVE LStrip(_)
LStrip(s) == IF s # <<>> /\ Head(s) \in Whitespace THEN LStrip(Tail(s)) ELSE s

RECURSIVE RStrip(_)
RStrip(s) ==
    IF s # <<>> /\ Last(s) \in Whitespace THEN RStrip(SubSeq(s, 1, Len(s) - 1)) ELSE s

Strip(s) == RStrip(LStrip(s))

\* str.split(":"): empty parts are kept.
RECURSIVE SplitAt(_, _, _)
SplitAt(text, sep, cur) ==
    IF text = <<>> THEN <<cur>>
    ELSE IF Head(text) = sep THEN <<cur>> \o SplitAt(Tail(text), sep, <<>>)
    ELSE SplitAt(Tail(text), sep, Append(cur, Head(text)))

\* The sign of a literal and the literal without it.
Signum(s) == IF s # <<>> /\ Head(s) = "-" THEN -1 ELSE 1
Unsigned(s) == IF s # <<>> /\ Head(s) \in {"-", "+"} THEN Tail(s) ELSE s

\* The position of the first "." of s, 0 if none.
RECURSIVE PointAt(_, _)
PointAt(s, i) ==
    IF i > Len(s) THEN 0 ELSE IF s[i] = "." THEN i ELSE PointAt(s, i + 1)

\* int(s)
IntLiteral(s) ==
    LET b == Strip(s)
        u == Unsigned(b)
    IN IF IsDigits(u) THEN Ok(Signum(b) * DigitsValue(u)) ELSE Err("ValueError")

\* float(s), in ticks
FloatLiteral(s) ==
    LET b == Strip(s)
        u == Unsigned(b)
        p == PointAt(u, 1)
        whole == IF p = 0 THEN u ELSE SubSeq(u, 1, p - 1)
        frac == IF p = 0 THEN <<>> ELSE SubSeq(u, p + 1, Len(u))
        shaped == /\ whole = <<>> \/ IsDigits(whole)
                  /\ frac = <<>> \/ IsDigits(frac)
                  /\ whole # <<>> \/ frac # <<>>
                  /\ Len(frac) <= 4
    IN IF shaped
       THEN Ok(Signum(b) * ((DigitsValue(whole) * TicksPerSecond)
                            + (DigitsValue(frac) * Pow10(4 - Len(frac)))))
       ELSE Err("ValueError")

\* f"{minutes}:{secs:05.2f}" of a formatted timestamp.
TimestampText(t) ==
    Decimal(t.minutes) \o <<":">>
      \o <<Digits[(t.centis \div 1000) + 1], Digits[((t.centis \div 100) % 10) + 1]>>
      \o <<".">>
      \o <<Digits[((t.centis \div 10) % 10) + 1], Digits[(t.centis % 10) + 1]>>

\* format_timestamp as text.
format_timestamp_text(ms) == TimestampText(format_timestamp(ms))

\* The texts format_timestamp can return for ms: a value half way between
\* two hundredths goes up or down with the binary float that holds it.
FormatChoices(ms) ==
    {format_timestamp_text(ms)}
      \cup (IF ms % 10 = 5 THEN {format_timestamp_text(ms - 1)} ELSE {})

\* parse_timestamp without the branch for H:MM:SS.mm.
Mutant_parse_timestamp_text(timestamp) ==
    LET t == Strip(timestamp)
        parts == SplitAt(t, ":", <<>>)
    IN IF FloatLiteral(t).ok THEN FloatLiteral(t)
       ELSE IF Len(parts) = 2
       THEN IF IntLiteral(parts[1]).ok /\ FloatLiteral(parts[2]).ok
            THEN Ok((IntLiteral(parts[1]).value * 60 * TicksPerSecond)
                    + FloatLiteral(parts[2]).value)
            ELSE Err("ValueError")
       ELSE Err("ValueError")

\* parse_timestamp of a text: float first, then the parts between colons.
parse_timestamp_text(timestamp) ==
    LET t == Strip(timestamp)
        parts == SplitAt(t, ":", <<>>)
    IN IF FloatLiteral(t).ok THEN FloatLiteral(t)
       ELSE IF Len(parts) = 2
       THEN IF IntLiteral(parts[1]).ok /\ FloatLiteral(parts[2]).ok
            THEN Ok((IntLiteral(parts[1]).value * 60 * TicksPerSecond)
                    + FloatLiteral(parts[2]).value)
            ELSE Err("ValueError")
       ELSE IF Len(parts) = 3
       THEN IF IntLiteral(parts[1]).ok /\ IntLiteral(parts[2]).ok /\ FloatLiteral(parts[3]).ok
            THEN Ok((IntLiteral(parts[1]).value * 3600 * TicksPerSecond)
                    + (IntLiteral(parts[2]).value * 60 * TicksPerSecond)
                    + FloatLiteral(parts[3]).value)
            ELSE Err("ValueError")
       ELSE Err("ValueError")

(***************************************************************************)
(* EditPoint and EDL, and the JSON document of an EDL file: a dict is a    *)
(* function whose domain is the set of its keys.  In this part a           *)
(* confidence is a whole number of ten-thousandths, so that                *)
(* round(confidence, 3) has something to round.                            *)
(***************************************************************************)
EditPoint(start, end, word, confidence) ==
    [start |-> start, end |-> end, word |-> word, confidence |-> confidence]

EDL(source_file, generated, stems_dir, edits) ==
    [source_file |-> source_file, generated |-> generated, stems_dir |-> stems_dir,
     edits |-> edits]

\* The confidence of an EditPoint built without one.
DefaultConfidence == 10000

\* round(self.confidence, 3)
Round3(c) == ((c + 5) \div 10) * 10

\* EditPoint.to_dict
EditPointToDict(e) ==
    [start |-> format_timestamp_text(e.start), end |-> format_timestamp_text(e.end),
     word |-> e.word, confidence |-> Round3(e.confidence)]

\* EDL.to_dict
EDLToDict(e) ==
    [source_file |-> e.source_file, generated |-> e.generated, stems_dir |-> e.stems_dir,
     edits |-> [n \in 1..Len(e.edits) |-> EditPointToDict(e.edits[n])]]

\* An EditPoint that cannot be built without a confidence.
Mutant_EditPointFromDict(data) ==
    IF "start" \notin DOMAIN data THEN Err("KeyError")
    ELSE IF ~parse_timestamp_text(data.start).ok THEN Err("ValueError")
    ELSE IF "end" \notin DOMAIN data THEN Err("KeyError")
    ELSE IF ~parse_timestamp_text(data.end).ok THEN Err("ValueError")
    ELSE IF "word" \notin DOMAIN data THEN Err("KeyError")
    ELSE IF "confidence" \notin DOMAIN data THEN Err("KeyError")
    ELSE Ok(EditPoint(parse_timestamp_text(data.start).value,
                      parse_timestamp_text(data.end).value,
                      data.word, data.confidence))

\* EditPoint.from_dict: start, end and word are read with data[...],
\* confidence with data.get("confidence", 1.0); times come back in ticks.
EditPointFromDict(data) ==
    IF "start" \notin DOMAIN data THEN Err("KeyError")
    ELSE IF ~parse_timestamp_text(data.start).ok THEN Err("ValueError")
    ELSE IF "end" \notin DOMAIN data THEN Err("KeyError")
    ELSE IF ~parse_timestamp_text(data.end).ok THEN Err("ValueError")
    ELSE IF "word" \notin DOMAIN data THEN Err("KeyError")
    ELSE Ok(EditPoint(parse_timestamp_text(data.start).value,
                      parse_timestamp_text(data.end).value,
                      data.word,
                      IF "confidence" \in DOMAIN data THEN data.confidence
                      ELSE DefaultConfidence))

\* The first edit of ds that EditPoint.from_dict rejects, 0 if none.
RECURSIVE FirstRejected(_, _)
FirstRejected(ds, n) ==
    IF n > Len(ds) THEN 0
    ELSE IF ~EditPointFromDict(ds[n]).ok THEN n
    ELSE FirstRejected(ds, n + 1)

\* EDL.from_dict: source_file, generated and edits are read with data[...],
\* stems_dir with data.get("stems_dir").
EDLFromDict(data) ==
    IF "source_file" \notin DOMAIN data THEN Err("KeyError")
    ELSE IF "generated" \notin DOMAIN data THEN Err("KeyError")
    ELSE IF "edits" \notin DOMAIN data THEN Err("KeyError")
    ELSE IF FirstRejected(data.edits, 1) # 0
         THEN EditPointFromDict(data.edits[FirstRejected(data.edits, 1)])
    ELSE Ok(EDL(data.source_file, data.generated,
                IF "stems_dir" \in DOMAIN data THEN data.stems_dir ELSE "None",
                [n \in 1..Len(data.edits) |-> EditPointFromDict(data.edits[n]).value]))

(***************************************************************************)
(* The inputs of edl.py.                                                   *)
(***************************************************************************)
\* Times in ms: the first, a middle and the last hundredths of a minute, in
\* the first minutes and in the last minute of an hour.
EdlMinutes == (0..MaxMinute) \cup {59}
EdlMillis == (0..30) \cup {500, 5500, 12860, 12865} \cup (59970..59999)
EdlTimes == {(m * 60000) + s : m \in EdlMinutes, s \in EdlMillis}

\* Timestamp texts: every text of a few characters, and the documented ones.
TimestampChars == {"1", "5", ".", ":", " ", "x", "-"}
Text_1_12_86 == <<"1", ":", "1", "2", ".", "8", "6">>
Text_01_12_86 == <<"0", "1", ":", "1", "2", ".", "8", "6">>
Text_1_05_30_50 == <<"1", ":", "0", "5", ":", "3", "0", ".", "5", "0">>
Text_72_86 == <<"7", "2", ".", "8", "6">>
DocumentedTexts == {Text_1_12_86, Text_01_12_86, Text_1_05_30_50, Text_72_86}
TimestampTexts(n) == SeqsUpTo(TimestampChars, n) \cup DocumentedTexts

\* The EDL objects that are saved.
EditPoints ==
    {EditPoint(s, e, "damn", c) :
        s \in {0, 1234, 59996}, e \in {600, 61800}, c \in {10000, 9123, 3006}}
EdlObjects(n) ==
    {EDL("song.mp3", "2024-01-01T00:00:00", d, es) :
        d \in {"None", "song_stems"}, es \in SeqsUpTo(EditPoints, n)}

\* The documents found in a file: any subset of the keys of a full
\* document, with edits of any subset of the keys of a full edit, and an
\* edit whose start is no timestamp.
Restrict(f, K) == [k \in K |-> f[k]]
FullEditDict ==
    [start |-> <<"0", ":", "0", "1", ".", "2", "3">>, end |-> Text_72_86,
     word |-> "damn", confidence |-> 9120, note |-> "checked"]
MalformedEditDict == [FullEditDict EXCEPT !.start = <<"x">>]
EditDicts ==
    {Restrict(FullEditDict, K) : K \in SUBSET (DOMAIN FullEditDict)}
      \cup {MalformedEditDict}
FullDocument(es) ==
    [source_file |-> "song.mp3", generated |-> "2024-01-01T00:00:00",
     stems_dir |-> "song_stems", edits |-> es, comment |-> "reviewed"]
EdlDocuments(n) ==
    {Restrict(FullDocument(es), K) :
        es \in SeqsUpTo(EditDicts, n), K \in SUBSET (DOMAIN FullDocument(<<>>))}

(***************************************************************************)
(* edl.py: a timestamp formatted and parsed, a text parsed, an EDL saved   *)
(* and loaded, a document loaded.                                          *)
(***************************************************************************)
InitEdl ==
    /\ \/ /\ epc = "time"
          /\ ts_in \in EdlTimes
          /\ ts_text = <<>>
          /\ edl_obj = <<>>
          /\ edl_doc = <<>>
       \/ /\ epc = "text"
          /\ ts_in = 0
          /\ ts_text \in TimestampTexts(MaxText)
          /\ edl_obj = <<>>
          /\ edl_doc = <<>>
       \/ /\ epc = "object"
          /\ ts_in = 0
          /\ ts_text = <<>>
          /\ edl_obj \in EdlObjects(MaxEdits)
          /\ edl_doc = <<>>
       \/ /\ epc = "doc"
          /\ ts_in = 0
          /\ ts_text = <<>>
          /\ edl_obj = <<>>
          /\ edl_doc \in EdlDocuments(MaxDocEdits)
    /\ ts_out = NoValue
    /\ edl_loaded = NoValue
    /\ ts_again = <<>>
    /\ edl_resaved = <<>>
    /\ DetectIdle
    /\ LexIdle
    /\ AlignIdle
    /\ MuteIdle
    /\ PipeIdle

\* format_timestamp(seconds)
EdlFormat ==
    /\ epc = "time"
    /\ ts_text' \in FormatChoices(ts_in)
    /\ epc' = "formatted"
    /\ UNCHANGED <<ts_in, ts_out, edl_obj, edl_doc, edl_loaded, ts_again, edl_resaved>>
    /\ UNCHANGED <<detVars, lexVars, alignVars, muteVars, pipeVars>>

\* parse_timestamp(timestamp)
EdlParse ==
    /\ epc \in {"formatted", "text"}
    /\ ts_out' = parse_timestamp_text(ts_text)
    /\ epc' = IF epc = "formatted" THEN "parsed" ELSE "parsed_text"
    /\ UNCHANGED <<ts_in, ts_text, edl_obj, edl_doc, edl_loaded, ts_again, edl_resaved>>
    /\ UNCHANGED <<detVars, lexVars, alignVars, muteVars, pipeVars>>

\* EDL.save: json.dump(self.to_dict(), f)
EdlSave ==
    /\ epc = "object"
    /\ edl_doc' = EDLToDict(edl_obj)
    /\ epc' = "saved"
    /\ UNCHANGED <<ts_in, ts_text, ts_out, edl_obj, edl_loaded, ts_again, edl_resaved>>
    /\ UNCHANGED <<detVars, lexVars, alignVars, muteVars, pipeVars>>

\* EDL.load: cls.from_dict(json.load(f))
EdlLoad ==
    /\ epc \in {"saved", "doc"}
    /\ edl_loaded' = EDLFromDict(edl_doc)
    /\ epc' = IF epc = "saved" THEN "loaded" ELSE "loaded_doc"
    /\ UNCHANGED <<ts_in, ts_text, ts_out, edl_obj, edl_doc, ts_again, edl_resaved>>
    /\ UNCHANGED <<detVars, lexVars, alignVars, muteVars, pipeVars>>

\* format_timestamp of the seconds that parse_timestamp returned.
EdlFormatAgain ==
    /\ epc = "parsed"
    /\ ts_out.ok
    /\ ts_again' \in FormatChoices(ts_out.value \div TicksPerMs)
    /\ epc' = "reformatted"
    /\ UNCHANGED <<ts_in, ts_text, ts_out, edl_obj, edl_doc, edl_loaded, edl_resaved>>
    /\ UNCHANGED <<detVars, lexVars, alignVars, muteVars, pipeVars>>

\* The loaded EDL with its times in ms.
LoadedObject(e) ==
    [e EXCEPT !.edits = [n \in 1..Len(e.edits) |->
        [e.edits[n] EXCEPT !.start = @ \div TicksPerMs, !.end = @ \div TicksPerMs]]]

\* EDL.save of the EDL that EDL.load returned.
EdlSaveAgain ==
    /\ epc = "loaded"
    /\ edl_loaded.ok
    /\ edl_resaved' = EDLToDict(LoadedObject(edl_loaded.value))
    /\ epc' = "resaved"
    /\ UNCHANGED <<ts_in, ts_text, ts_out, edl_obj, edl_doc, edl_loaded, ts_again>>
    /\ UNCHANGED <<detVars, lexVars, alignVars, muteVars, pipeVars>>

NextEdl ==
    \/ EdlFormat
    \/ EdlParse
    \/ EdlSave
    \/ EdlLoad
    \/ EdlFormatAgain
    \/ EdlSaveAgain

SpecEdl == InitEdl /\ [][NextEdl]_vars

(***************************************************************************)
(* C11.  An EDL saved and then loaded has the same source_file and an edit *)
(* list of the same length and order, each edit point with the same word,  *)
(* the same start and end, and the confidence rounded to 3 decimals.       *)
(***************************************************************************)
C11_SaveLoadReproduces ==
    epc = "loaded" =>
        /\ edl_loaded.ok
        /\ edl_loaded.value.source_file = edl_obj.source_file
        /\ Len(edl_loaded.value.edits) = Len(edl_obj.edits)
        /\ \A n \in 1..Len(edl_obj.edits) :
              /\ edl_loaded.value.edits[n].word = edl_obj.edits[n].word
              /\ edl_loaded.value.edits[n].start = edl_obj.edits[n].start * TicksPerMs
              /\ edl_loaded.value.edits[n].end = edl_obj.edits[n].end * TicksPerMs
              /\ edl_loaded.value.edits[n].confidence = Round3(edl_obj.edits[n].confidence)

(***************************************************************************)
(* C12.  A timestamp of a whole number of milliseconds comes back exactly  *)
(* from its text: parse_timestamp(format_timestamp(x)) = x.                *)
(***************************************************************************)
C12_TimestampLossless ==
    epc = "parsed" => (ts_out.ok /\ ts_out.value = ts_in * TicksPerMs)

(***************************************************************************)
(* C13.  For every x in [0, 3600) s, parse_timestamp(format_timestamp(x))  *)
(* is within 0.01 s of x, also when the seconds round up to 60.00.         *)
(***************************************************************************)
C13_TimestampWithinHundredth ==
    epc = "parsed" =>
        /\ ts_out.ok
        /\ ts_out.value - (ts_in * TicksPerMs) <= 10 * TicksPerMs
        /\ (ts_in * TicksPerMs) - ts_out.value <= 10 * TicksPerMs
        /\ ts_text = format_timestamp_text(ts_in)
              => ts_out.value = parse_timestamp(format_timestamp(ts_in)) * TicksPerMs

C13_Witness ==
    /\ epc = "parsed"
    /\ ts_in = 59996
    /\ ts_text = <<"0", ":", "6", "0", ".", "0", "0">>
    /\ ts_out = Ok(60 * TicksPerSecond)

(***************************************************************************)
(* C14.  parse_timestamp returns a value exactly for three forms of text:  *)
(* a bare number of seconds, minutes:seconds and hours:minutes:seconds,    *)
(* with the value minutes*60+seconds resp. hours*3600+minutes*60+seconds;  *)
(* every other text fails with ValueError.  "1:12.86" and "01:12.86" give  *)
(* 72.86, "1:05:30.50" gives 3930.5, "72.86" gives 72.86.                  *)
(***************************************************************************)
IsBareSeconds(t) == FloatLiteral(t).ok

\* t is a:b with an integer a and a number b.
IsMinutesSeconds(t) ==
    \E p \in 1..Len(t) :
        /\ t[p] = ":"
        /\ IntLiteral(SubSeq(t, 1, p - 1)).ok
        /\ FloatLiteral(SubSeq(t, p + 1, Len(t))).ok

\* t is a:b:c with integers a and b and a number c.
IsHoursMinutesSeconds(t) ==
    \E p \in 1..Len(t) : \E q \in (p + 1)..Len(t) :
        /\ t[p] = ":" /\ t[q] = ":"
        /\ IntLiteral(SubSeq(t, 1, p - 1)).ok
        /\ IntLiteral(SubSeq(t, p + 1, q - 1)).ok
        /\ FloatLiteral(SubSeq(t, q + 1, Len(t))).ok

\* The seconds that a text of one of the three forms stands for.
FormValue(t) ==
    IF IsBareSeconds(t) THEN FloatLiteral(t).value
    ELSE IF IsMinutesSeconds(t)
    THEN LET p == CHOOSE p \in 1..Len(t) : t[p] = ":"
         IN (IntLiteral(SubSeq(t, 1, p - 1)).value * 60 * TicksPerSecond)
            + FloatLiteral(SubSeq(t, p + 1, Len(t))).value
    ELSE LET p == CHOOSE p \in 1..Len(t) : t[p] = ":"
             q == CHOOSE q \in (p + 1)..Len(t) : t[q] = ":"
         IN (IntLiteral(SubSeq(t, 1, p - 1)).value * 3600 * TicksPerSecond)
            + (IntLiteral(SubSeq(t, p + 1, q - 1)).value * 60 * TicksPerSecond)
            + FloatLiteral(SubSeq(t, q + 1, Len(t))).value

HasRequiredFields(doc) ==
    /\ {"source_file", "generated", "edits"} \subseteq DOMAIN doc
    /\ \A n \in 1..Len(doc.edits) : {"start", "end", "word"} \subseteq DOMAIN doc.edits[n]

\* The defaults of a loaded document.
LoadedDefaults(doc, loaded) ==
    /\ loaded.source_file = doc.source_file
    /\ loaded.stems_dir = IF "stems_dir" \in DOMAIN doc THEN doc.stems_dir ELSE "None"
    /\ Len(loaded.edits) = Len(doc.edits)
    /\ \A n \in 1..Len(doc.edits) :
          /\ loaded.edits[n].word = doc.edits[n].word
          /\ loaded.edits[n].confidence =
                IF "confidence" \in DOMAIN doc.edits[n] THEN doc.edits[n].confidence
                ELSE DefaultConfidence

WellFormedTimes(doc) ==
    "edits" \in DOMAIN doc =>
        \A n \in 1..Len(doc.edits) : \A k \in {"start", "end"} \cap DOMAIN doc.edits[n] :
            parse_timestamp_text(doc.edits[n][k]).ok

ass == <<"a", "s", "s">>
hell == <<"h", "e", "l", "l">>
fuck == <<"f", "u", "c", "k">>
fucker == <<"f", "u", "c", "k", "e", "r">>
class == <<"c", "l", "a", "s", "s">>
hello == <<"h", "e", "l", "l", "o">>
Hell == <<"H", "e", "l", "l", "!">>
motherfucker == <<"m", "o", "t", "h", "e", "r", "f", "u", "c", "k", "e", "r">>

\* Parts of _get_default_words.
Lexicons == {{ass, hell}, {fuck, fucker}, {ass, hell, fuck, fucker}}

\* The spellings Whisper can report.
HeardSpellings == {la, ass, class, hello, Hell, motherfucker}

\* A word list from its spellings: the n-th word starts at n/2 s, lasts
\* 0.4 s and has a confidence of its own.
HeardWords(spellings) ==
    [n \in 1..Len(spellings) |->
        TranscribedWord(spellings[n], n * 500, (n * 500) + 400, 1000 - (n * 100))]

DetectWordLists(n) == {HeardWords(sp) : sp \in SeqsUpTo(HeardSpellings, n)}

(***************************************************************************)
(* ProfanityDetector.detect as a loop over the words, called twice with    *)
(* the same words and the same lexicon.                                    *)
(***************************************************************************)
InitDetect ==
    /\ dpc = "loop"
    /\ det_words \in DetectWordLists(MaxWords)
    /\ det_lexicon \in Lexicons
    /\ det_run = 1
    /\ det_rest = det_words
    /\ matches = <<>>
    /\ first_matches = <<>>
    /\ EdlIdle
    /\ LexIdle
    /\ AlignIdle
    /\ MuteIdle
    /\ PipeIdle

\* "if normalized in self.profanity_set: matches.append(...); continue"
DetectExact ==
    /\ dpc = "loop"
    /\ det_rest # <<>>
    /\ detector_normalize_word(Head(det_rest).word) \in det_lexicon
    /\ \E c \in CanonicalChoices(Head(det_rest).word, det_lexicon) :
         matches' = Append(matches, ProfanityMatch(c, Head(det_rest)))
    /\ det_rest' = Tail(det_rest)
    /\ UNCHANGED <<dpc, det_words, det_lexicon, det_run, first_matches>>
    /\ UNCHANGED <<edlVars, lexVars, alignVars, muteVars, pipeVars>>

\* "for profanity in self.profanity_set: if profanity in normalized and
\* len(profanity) >= 4: matches.append(...); break": the entry that the
\* iteration over the set meets first.
DetectContained ==
    /\ dpc = "loop"
    /\ det_rest # <<>>
    /\ detector_normalize_word(Head(det_rest).word) \notin det_lexicon
    /\ \E c \in CanonicalChoices(Head(det_rest).word, det_lexicon) :
         matches' = Append(matches, ProfanityMatch(c, Head(det_rest)))
    /\ det_rest' = Tail(det_rest)
    /\ UNCHANGED <<dpc, det_words, det_lexicon, det_run, first_matches>>
    /\ UNCHANGED <<edlVars, lexVars, alignVars, muteVars, pipeVars>>

\* The word is neither a lexicon entry nor contains one of length >= 4.
DetectSkip ==
    /\ dpc = "loop"
    /\ det_rest # <<>>
    /\ CanonicalChoices(Head(det_rest).word, det_lexicon) = {}
    /\ det_rest' = Tail(det_rest)
    /\ UNCHANGED <<dpc, det_words, det_lexicon, det_run, matches, first_matches>>
    /\ UNCHANGED <<edlVars, lexVars, alignVars, muteVars, pipeVars>>

\* "return matches"
DetectReturn ==
    /\ dpc = "loop"
    /\ det_rest = <<>>
    /\ dpc' = IF det_run = 1 THEN "returned" ELSE "done"
    /\ first_matches' = IF det_run = 1 THEN matches ELSE first_matches
    /\ UNCHANGED <<det_words, det_lexicon, det_run, det_rest, matches>>
    /\ UNCHANGED <<edlVars, lexVars, alignVars, muteVars, pipeVars>>

\* detect is called again with the same words.
DetectAgain ==
    /\ dpc = "returned"
    /\ dpc' = "loop"
    /\ det_run' = 2
    /\ det_rest' = det_words
    /\ matches' = <<>>
    /\ UNCHANGED <<det_words, det_lexicon, first_matches>>
    /\ UNCHANGED <<edlVars, lexVars, alignVars, muteVars, pipeVars>>

NextDetect ==
    \/ DetectExact
    \/ DetectContained
    \/ DetectSkip
    \/ DetectReturn
    \/ DetectAgain

SpecDetect == InitDetect /\ [][NextDetect]_vars

\* The word equals a lexicon entry or contains one of length >= 4.
IsHit(w, lexicon) ==
    LET normalized == detector_normalize_word(w.word)
    IN \/ normalized \in lexicon
       \/ \E p \in lexicon : Len(p) >= 4 /\ IsSubstring(p, normalized)

HitWords(ws, lexicon) == SelectSeq(ws, LAMBDA w : IsHit(w, lexicon))

(***************************************************************************)
(* C16.  detect returns, in word order, exactly one match for every word   *)
(* whose normalized text equals a lexicon entry (the canonical word is the *)
(* normalized text) or else contains a lexicon entry of length >= 4 (the   *)
(* canonical word is such an entry), and none for any other word; each     *)
(* match carries its word's text, start, end and confidence.  "ass" does   *)
(* not match "class", "hell" matches "hello".                              *)
(***************************************************************************)
C16_DetectPerWord ==
    dpc \in {"returned", "done"} =>
        LET hits == HitWords(det_words, det_lexicon)
        IN /\ Len(matches) = Len(hits)
           /\ \A k \in 1..Len(hits) :
                 LET normalized == detector_normalize_word(hits[k].word)
                 IN /\ matches[k].original_word = hits[k].word
                    /\ matches[k].start = hits[k].start
                    /\ matches[k].end = hits[k].end
                    /\ matches[k].confidence = hits[k].confidence
                    /\ IF normalized \in det_lexicon
                       THEN matches[k].word = normalized
                       ELSE /\ matches[k].word \in det_lexicon
                            /\ Len(matches[k].word) >= 4
                            /\ IsSubstring(matches[k].word, normalized)
           /\ \A k \in 1..Len(matches) : matches[k].original_word # class
           /\ \A n \in 1..Len(det_words) :
                 (det_words[n].word = hello /\ hell \in det_lexicon)
                 => \E k \in 1..Len(matches) :
                       /\ matches[k].start = det_words[n].start
                       /\ matches[k].word = hell

C16_Witness ==
    /\ dpc = "returned"
    /\ ass \in det_lexicon
    /\ Len(det_words) = 3
    /\ det_words[1].word = class
    /\ det_words[2].word = hello
    /\ det_words[3].word = Hell
    /\ Len(matches) = 2
    /\ matches[2].word = hell
    /\ matches[2].original_word = Hell

(***************************************************************************)
(* C17.  detect is deterministic in the canonical word: two calls with the *)
(* same lexicon and the same words return the same matches, and for        *)
(* "motherfucker" with "fuck" and "fucker" in the lexicon the canonical    *)
(* word is "fuck".                                                         *)
(***************************************************************************)
C17_DetectDeterministic ==
    dpc = "done" =>
        /\ matches = first_matches
        /\ \A k \in 1..Len(matches) :
              (matches[k].original_word = motherfucker /\ fuck \in det_lexicon)
              => matches[k].word = fuck

(***************************************************************************)
(* Vocabulary of the claims about the alignment.                           *)
(***************************************************************************)
\* The words that the step being taken appends to aligned_words.
Emitted == SubSeq(aligned_words', Len(aligned_words) + 1, Len(aligned_words'))

\* The opcodes of the whole call.
AllOpcodes == get_opcodes(TranscriptNormalized(transcribed_words), NormalizedOf(ref_words))

HasRun(tag) == \E n \in 1..Len(AllOpcodes) : AllOpcodes[n].tag = tag

(***************************************************************************)
(* C18.  Without a reference (None or the empty text) or with a reference  *)
(* text that holds no word (whitespace, bracketed section headers),        *)
(* transcribe_with_context returns the transcript unchanged.               *)
(***************************************************************************)
C18_EmptyReferenceKeepsTranscript ==
    (/\ apc = "done"
     /\ \/ NoReference(reference_lyrics)
        \/ parse_lyrics(reference_lyrics.text) = <<>>)
    => aligned_words = transcribed_words

\* The same for a reference that is None or the empty text.
C18_NoReferenceKeepsTranscript ==
    (apc = "done" /\ NoReference(reference_lyrics)) => aligned_words = transcribed_words

(***************************************************************************)
(* C19.  With an empty transcript and a reference of n >= 1 words the      *)
(* alignment emits n words: the k-th reference word (k from 0) with start  *)
(* 0.3*k and end 0.3*(k+1).                                                *)
(***************************************************************************)
C19_EmptyTranscriptInserts ==
    (/\ apc = "done"
     /\ transcribed_words = <<>>
     /\ ~NoReference(reference_lyrics)
     /\ ref_words # <<>>)
    => /\ Len(aligned_words) = Len(ref_words)
       /\ \A n \in 1..Len(ref_words) :
             /\ aligned_words[n].word = ref_words[n]
             /\ aligned_words[n].start = InsertWordMs * (n - 1)
             /\ aligned_words[n].end = InsertWordMs * n

\* What a replace step emits for the opcode op: one word per reference word
\* of the run, the span of the transcript run cut into equal consecutive
\* pieces, the confidence of an interpolated word.
ReplacePartition(op, emitted) ==
    LET T == SubSeq(transcribed_words, op.i1 + 1, op.i2)
        m == op.j2 - op.j1
    IN /\ m >= 1
       /\ Len(emitted) = m
       /\ emitted[1].start = T[1].start
       /\ emitted[m].end = Last(T).end
       /\ \A n \in 1..m :
             /\ emitted[n].word = ref_words[op.j1 + n]
             /\ m * (emitted[n].end - emitted[n].start) = Last(T).end - T[1].start
             /\ emitted[n].confidence = ReplaceConfidence
       /\ \A n \in 1..(m - 1) : emitted[n].end = emitted[n + 1].start

(***************************************************************************)
(* C20.  A replace run of m reference words emits exactly m words with the *)
(* reference spellings whose intervals cut [T.first.start, T.last.end]     *)
(* into m equal consecutive pieces, each with the confidence 0.5; and 0.5  *)
(* is lower than the confidence of every word emitted from an equal run.   *)
(***************************************************************************)
C20_ReplaceInterpolation ==
    [][/\ AlignReplace => ReplacePartition(Head(opcodes), Emitted)
       /\ (AlignEqual /\ HasRun("replace"))
          => \A n \in 1..Len(Emitted) : Emitted[n].confidence > ReplaceConfidence]_vars

\* The same without the comparison of the confidences.
C20_ReplacePartitions ==
    [][AlignReplace => ReplacePartition(Head(opcodes), Emitted)]_vars

\* What an insert step emits for the opcode op: the reference words of the
\* run, 0.3 s each, chained from the end of the last emitted word (from 0
\* when no word has been emitted), with the confidence of an inserted word.
InsertChain(op, emitted) ==
    LET k == op.j2 - op.j1
        anchor == IF aligned_words = <<>> THEN 0 ELSE Last(aligned_words).end
    IN /\ k >= 1
       /\ Len(emitted) = k
       /\ emitted[1].start = anchor
       /\ \A n \in 1..k :
             /\ emitted[n].word = ref_words[op.j1 + n]
             /\ emitted[n].end - emitted[n].start = InsertWordMs
             /\ emitted[n].confidence = InsertConfidence
       /\ \A n \in 1..(k - 1) : emitted[n].end = emitted[n + 1].start
       /\ InsertConfidence < ReplaceConfidence

(***************************************************************************)
(* C21.  An insert run of k reference words emits all k words after the    *)
(* previously emitted word: the first starts at the last known end time,   *)
(* each lasts 0.3 s and starts where the previous one ends, and each has   *)
(* the confidence 0.3, below the confidence of a replaced word.            *)
(***************************************************************************)
C21_InsertChained ==
    [][AlignInsert => InsertChain(Head(opcodes), Emitted)]_vars

\* The same for the insert runs that follow an emitted word.
C21_InsertChainedAfterWord ==
    [][(AlignInsert /\ aligned_words # <<>>) => InsertChain(Head(opcodes), Emitted)]_vars

\* What an equal step emits for the opcode op: transcript[i] paired with
\* reference[j] in order, the spelling of the reference and the times and
\* confidence of the transcript.
EqualPairs(op, emitted) ==
    /\ op.i2 - op.i1 = op.j2 - op.j1
    /\ Len(emitted) = op.j2 - op.j1
    /\ \A n \in 1..Len(emitted) :
          /\ emitted[n].word = ref_words[op.j1 + n]
          /\ emitted[n].start = transcribed_words[op.i1 + n].start
          /\ emitted[n].end = transcribed_words[op.i1 + n].end
          /\ emitted[n].confidence = transcribed_words[op.i1 + n].confidence

(***************************************************************************)
(* C22.  An equal run pairs transcript[i] with reference[j] one to one in  *)
(* order and emits for each pair the reference's spelling with the         *)
(* transcript word's start, end and confidence; a delete run emits         *)
(* nothing.                                                                *)
(***************************************************************************)
C22_EqualPairsDeleteDrops ==
    [][/\ AlignEqual => EqualPairs(Head(opcodes), Emitted)
       /\ AlignDelete => Emitted = <<>>]_vars

\* A finished call with a delete run and an equal run whose reference
\* spelling differs from the transcript's.
C22_Witness ==
    /\ apc = "done"
    /\ HasRun("delete")
    /\ \E n \in 1..Len(AllOpcodes) :
          /\ AllOpcodes[n].tag = "equal"
          /\ ref_words[AllOpcodes[n].j1 + 1] # transcribed_words[AllOpcodes[n].i1 + 1].word
          /\ \E a \in 1..Len(aligned_words) :
                /\ aligned_words[a].word = ref_words[AllOpcodes[n].j1 + 1]
                /\ aligned_words[a].start = transcribed_words[AllOpcodes[n].i1 + 1].start

(***************************************************************************)
(* C23.  Muting is idempotent: muting the result of a mute with the same   *)
(* spans gives the buffer of the first mute, and two applications to the   *)
(* same source give identical buffers.                                     *)
(***************************************************************************)
C23_MuteIdempotent ==
    (mpc = "done" /\ mute_run = 2) => audio = first_audio

\* The same for spans whose end is not before their start.
C23_MuteIdempotentForward ==
    (/\ mpc = "done"
     /\ mute_run = 2
     /\ \A n \in 1..Len(sections) : sections[n][1] <= sections[n][2])
    => audio = first_audio

\* Two applications to the same source file give identical buffers.
C23_MuteSameSourceTwice ==
    (/\ mpc = "done"
     /\ mute_run = 2
     /\ source_audio = Recording(Len(source_audio)))
    => audio = first_audio

(***************************************************************************)
(* The lexicon of ProfanityDetector: construction, add_words, remove_words.*)
(***************************************************************************)
\* _load_word_list with a word list file: the stripped, lower-cased lines
\* that are not empty and do not start with "#".
load_word_list(lines) ==
    {Lower(Strip(lines[n])) : n \in {k \in 1..Len(lines) :
        LET word == Lower(Strip(lines[k]))
        IN word # <<>> /\ Head(word) # "#"}}

\* add_words
add_words(lexicon, ws) == lexicon \cup {Strip(Lower(ws[n])) : n \in 1..Len(ws)}

\* remove_words with the words as they were passed.
Mutant_remove_words(lexicon, ws) == lexicon \ {ws[n] : n \in 1..Len(ws)}

\* remove_words
remove_words(lexicon, ws) == lexicon \ {Strip(Lower(ws[n])) : n \in 1..Len(ws)}

(***************************************************************************)
(* The inputs of the lexicon operations.                                   *)
(***************************************************************************)
DamnCapital == <<"D", "A", "m", "n">>
PaddedDamn == <<" ">> \o DamnCapital \o <<" ", " ">>
Blank == <<" ">>
Bang == <<"!">>

\* What a caller passes to add_words and remove_words.
LexiconTexts == {damn, DamnCapital, PaddedDamn, ass, <<>>, Blank}

WordArguments(n) == SeqsUpTo(LexiconTexts, n)

\* The lines of a word list file, without their line ends.
WordListLines == {<<>>, Blank, <<"#", "a", "s", "s">>, <<" ", "#">>, <<"A", "s", "s", " ">>, hell}

WordListFiles(n) == SeqsUpTo(WordListLines, n)

\* The words that detect is called with.
ProbeSpellings == {Bang, la, Hell, Damn}

(***************************************************************************)
(* The life of one detector.                                               *)
(***************************************************************************)
InitLexicon ==
    /\ lpc = "new"
    /\ lex_set = {}
    /\ lex_ops = 0
    /\ lex_last = NoOperation
    /\ lex_matches = <<>>
    /\ EdlIdle
    /\ DetectIdle
    /\ AlignIdle
    /\ MuteIdle
    /\ PipeIdle

\* ProfanityDetector() without a word list file: the built-in words.
LexDefault ==
    /\ lpc = "new"
    /\ lex_set' = DefaultWords
    /\ lex_last' = [op |-> "default", words |-> <<>>, prior |-> lex_set]
    /\ lpc' = "ready"
    /\ UNCHANGED <<lex_ops, lex_matches, edlVars, detVars, alignVars, muteVars, pipeVars>>

\* ProfanityDetector(word_list_path)
LexLoadFile ==
    /\ lpc = "new"
    /\ \E lines \in WordListFiles(MaxLines) :
          /\ lex_set' = load_word_list(lines)
          /\ lex_last' = [op |-> "load", words |-> lines, prior |-> lex_set]
    /\ lpc' = "ready"
    /\ UNCHANGED <<lex_ops, lex_matches, edlVars, detVars, alignVars, muteVars, pipeVars>>

LexAddWords ==
    /\ lpc = "ready"
    /\ lex_ops < MaxLexOps
    /\ \E ws \in WordArguments(MaxListed) :
          /\ lex_set' = add_words(lex_set, ws)
          /\ lex_last' = [op |-> "add", words |-> ws, prior |-> lex_set]
    /\ lex_ops' = lex_ops + 1
    /\ UNCHANGED <<lpc, lex_matches, edlVars, detVars, alignVars, muteVars, pipeVars>>

LexRemoveWords ==
    /\ lpc = "ready"
    /\ lex_ops < MaxLexOps
    /\ \E ws \in WordArguments(MaxListed) :
          /\ lex_set' = remove_words(lex_set, ws)
          /\ lex_last' = [op |-> "remove", words |-> ws, prior |-> lex_set]
    /\ lex_ops' = lex_ops + 1
    /\ UNCHANGED <<lpc, lex_matches, edlVars, detVars, alignVars, muteVars, pipeVars>>

\* detect called with one word.
LexDetect ==
    /\ lpc = "ready"
    /\ \E spelling \in ProbeSpellings :
          /\ lex_matches' \in DetectOutcomes(HeardWords(<<spelling>>), lex_set)
          /\ lex_last' = [op |-> "detect", words |-> <<spelling>>, prior |-> lex_set]
    /\ lpc' = "detected"
    /\ UNCHANGED <<lex_set, lex_ops, edlVars, detVars, alignVars, muteVars, pipeVars>>

NextLexicon ==
    \/ LexDefault
    \/ LexLoadFile
    \/ LexAddWords
    \/ LexRemoveWords
    \/ LexDetect

SpecLexicon == InitLexicon /\ [][NextLexicon]_vars

\* The words w and w2 differ at most in letter case and in leading and
\* trailing whitespace.
SameWord(w, w2) ==
    LET s == Strip(w)
        s2 == Strip(w2)
    IN /\ Len(s) = Len(s2)
       /\ \A i \in 1..Len(s) : LowerChar(s[i]) = LowerChar(s2[i])

(***************************************************************************)
(* C24.  add_words and remove_words normalise their input by case and      *)
(* surrounding whitespace: after add_words([w]) the lexicon contains       *)
(* lower(strip(w)); remove_words([w2]) removes that entry for every w2     *)
(* that differs from w only in case or surrounding whitespace; removing a  *)
(* word that is not in the lexicon changes nothing and raises no error.    *)
(***************************************************************************)
C24_AddRemoveNormalize ==
    LET ws == lex_last.words
        listed == {Lower(Strip(ws[n])) : n \in 1..Len(ws)}
    IN /\ lex_last.op = "add" =>
            /\ \A n \in 1..Len(ws) : Lower(Strip(ws[n])) \in lex_set
            /\ lex_set = lex_last.prior \cup listed
       /\ lex_last.op = "remove" =>
            /\ \A w \in LexiconTexts : \A n \in 1..Len(ws) :
                  SameWord(w, ws[n]) => Lower(Strip(w)) \notin lex_set
            /\ lex_set = lex_last.prior \ listed
            /\ (listed \cap lex_last.prior = {}) => lex_set = lex_last.prior

\* After an earlier operation, an entry is removed by a word that is not
\* spelled like the entry.
C24_Witness ==
    /\ lex_last.op = "remove"
    /\ lex_ops >= 2
    /\ damn \in lex_last.prior
    /\ damn \notin lex_set
    /\ \E n \in 1..Len(lex_last.words) : lex_last.words[n] \in {DamnCapital, PaddedDamn}

\* Every entry is lower case and has no whitespace at its ends.
EntriesNormalized == \A e \in lex_set : Lower(e) = e /\ Strip(e) = e

(***************************************************************************)
(* C27.  After any sequence of lexicon operations every entry is a         *)
(* non-empty lower-case string without leading or trailing whitespace, and *)
(* a word that normalises to the empty string never produces a match.      *)
(***************************************************************************)
C27_LexiconEntriesClean ==
    /\ EntriesNormalized
    /\ <<>> \notin lex_set
    /\ \A k \in 1..Len(lex_matches) :
          detector_normalize_word(lex_matches[k].original_word) # <<>>

\* The same without the claim that no entry is empty.
C27_EntriesLowerStripped == EntriesNormalized

\* The same right after the construction.
C27_ConstructedEntriesClean ==
    (lex_ops = 0) => (EntriesNormalized /\ <<>> \notin lex_set)

(***************************************************************************)
(* C25.  At the return of every run of filter, detect_only and apply_edl   *)
(* with keep_temp_files false, every temporary directory that the run      *)
(* created has been removed, an apply_edl run that reuses cached stems     *)
(* included.                                                               *)
(***************************************************************************)
C25_TempDirsRemoved ==
    (/\ ppc = "returned"
     /\ ~keep_temp_files
     /\ workflow \in {"filter", "detect_only", "apply_edl"})
    => temp_dirs = before.temp_dirs

\* The same for the directories that hold the separated stems: the runs of
\* filter and detect_only, and the apply_edl runs that separate again or
\* never reach the muting.
C25_StemTempDirsRemoved ==
    (/\ ppc = "returned"
     /\ ~keep_temp_files
     /\ workflow \in {"filter", "detect_only", "apply_edl"}
     /\ ~(workflow = "apply_edl" /\ temp_dir = "None" /\ Called("mute")))
    => temp_dirs = before.temp_dirs

(***************************************************************************)
(* C26.  In every FilterResult returned by filter, generate_edl or         *)
(* apply_edl, output_path is set only if the combined output file was      *)
(* exported during the run.                                                *)
(***************************************************************************)
C26_OutputPathOnlyIfExported ==
    (ppc = "returned" /\ result.kind = "FilterResult" /\ result.output_path # "None")
    => exported

\* The same for generate_edl and apply_edl.
C26_EdlOutputPathOnlyIfExported ==
    (/\ ppc = "returned"
     /\ workflow \in {"generate_edl", "apply_edl"}
     /\ result.kind = "FilterResult"
     /\ result.output_path # "None")
    => exported

C28_ApplyKeepsCachedStems ==
    workflow = "apply_edl" =>
        /\ stems_fs = before.stems_fs
        /\ (ppc = "returned" /\ edl_file.valid) =>
              (ApplyNeedsSeparation(edl_file, stems_fs)
                  <=> ApplyNeedsSeparation(edl_file, before.stems_fs))

\* An apply_edl run that reused the cached stems, removes its temporary
\* files and has returned, with success or after a failure.
C28_Witness ==
    /\ ppc = "returned"
    /\ workflow = "apply_edl"
    /\ ~keep_temp_files
    /\ temp_dir = "None"
    /\ Called("mute")
    /\ ~Called("separate")
    /\ stems_fs.exists /\ stems_fs.vocals /\ stems_fs.no_vocals

\* The seconds field of a timestamp text is 60.00.
SecondsFieldSixty(text) ==
    /\ Len(text) >= 5
    /\ SubSeq(text, Len(text) - 4, Len(text)) = <<"6", "0", ".", "0", "0">>

\* The texts of the timestamps of a saved document.
SavedTimes(doc) == [n \in 1..Len(doc.edits) |-> <<doc.edits[n].start, doc.edits[n].end>>]

(***************************************************************************)
(* C30.  For every x >= 0 in whole milliseconds format_timestamp(x) has a  *)
(* seconds field below 60.00, so the text is canonical: formatting the     *)
(* parsed text gives the same text again, and saving a loaded EDL writes   *)
(* the same timestamp texts.                                               *)
(***************************************************************************)
C30_TimestampTextCanonical ==
    /\ epc \in {"formatted", "parsed", "reformatted"} => ~SecondsFieldSixty(ts_text)
    /\ epc = "reformatted" => ts_again = ts_text
    /\ epc = "resaved" => SavedTimes(edl_resaved) = SavedTimes(edl_doc)

\* The same for the times whose seconds do not round up to a full minute.
C30_CanonicalBelowRounding ==
    /\ (epc \in {"formatted", "parsed", "reformatted"} /\ ts_in % 60000 < 59990)
          => ~SecondsFieldSixty(ts_text)
    /\ (epc = "reformatted" /\ ts_in % 60000 < 59990) => ts_again = ts_text
    /\ (/\ epc = "resaved"
        /\ \A n \in 1..Len(edl_obj.edits) :
              edl_obj.edits[n].start % 60000 < 59990 /\ edl_obj.edits[n].end % 60000 < 59990)
          => SavedTimes(edl_resaved) = SavedTimes(edl_doc)

=============================================================================
